---- MODULE Spec2Model ----
(***************************************************************************)
(* A model of the statement parser of bpi-statement-parser:                *)
(*   src/src/transaction_parser.py  (SimplePDFNormalizer, TransactionParser)*)
(* Text is modelled as TLA+ strings, a statement as a sequence of lines,   *)
(* and the regular expressions of the source as pattern values that a      *)
(* backtracking matcher interprets the way Python's re module does.        *)
(***************************************************************************)
EXTENDS Integers, Sequences, FiniteSets, TLC

VARIABLES
    pc,              \* position of the running call
    line,            \* normalize_line: the input line
    norm1,           \* normalize_line(line)
    norm2,           \* normalize_line(normalize_line(line))
    text,            \* parse_transactions: the statement text, as its lines
    statement_year,  \* parse_transactions: the statement_year argument
    statement_month, \* the statement's own month (known to the caller only)
    sections,        \* what _split_by_cards returned
    scanned,         \* the records of all sections, before _remove_duplicates
    result,          \* what parse_transactions returned
    raised,          \* the exception the call let escape, or "none"
    T,               \* _remove_duplicates: the input list
    dedup1,          \* _remove_duplicates(T)
    dedup2,          \* _remove_duplicates(_remove_duplicates(T))
    FUZZY_AVAILABLE, \* account_mapper: whether fuzzywuzzy could be imported
    expense_accounts,\* AccountMapper: the loaded expense accounts, [] if none
    description,     \* map_description_to_account: the description argument
    scores,          \* the similarity scores fuzzywuzzy gives for this call
    account,         \* what map_description_to_account returned
    confidence,      \* what get_mapping_confidence returned
    mapper,          \* an AccountMapper: its attributes
    calls,           \* the number of calls the mapper has answered
    descriptions,    \* batch_map_descriptions: the descriptions argument
    mapped_accounts, \* what batch_map_descriptions returned
    summary,         \* what get_mapping_summary returned
    df,              \* clean_dataframe: the frame argument
    now,             \* datetime.now().year
    df_clean,        \* what clean_dataframe returned
    disk,            \* the config directories: what each one holds
    environ,         \* os.environ
    creatable,       \* the folders os.makedirs can make, or finds made
    sys_modules,     \* sys.modules: the module held under the name 'config'
    loader,          \* a ConfigLoader: its attributes
    returned,        \* what load() returned
    loads,           \* the number of calls of load()
    clock,           \* the web server's clock: the second it shows
    folders,         \* UPLOAD_FOLDER: the process folders and their files
    review_sessions, \* web_app.review_sessions
    inflight,        \* the uploads that have a process id and no response yet
    issued,          \* the process ids given to uploads, oldest first
    request,         \* the request answered last
    response,        \* and the response to it
    scan_lines,      \* _parse_card_section: lines
    scan_i,          \* _parse_card_section: i
    scan_transactions, \* _parse_card_section: transactions
    scan_starts,     \* the values of i at which the loop body began, in order
    scan_used,       \* for each record of transactions, the lines it was read from
    pdf_files,       \* process_batch: the pdf_files argument
    batch_i,         \* process_batch: the number of files the loop has handled
    processed_files, \* BatchStatementProcessor.processed_files
    failed_files,    \* BatchStatementProcessor.failed_files
    all_transactions \* BatchStatementProcessor.all_transactions

parser_vars == <<line, norm1, norm2, text, statement_year, statement_month,
                 sections, scanned, result, T, dedup1, dedup2>>

instance_vars == <<mapper, calls, descriptions, mapped_accounts, summary>>

handler_vars == <<df, now, df_clean>>

config_vars == <<disk, environ, creatable, sys_modules, loader, returned, loads>>

web_vars == <<clock, folders, review_sessions, inflight, issued, request, response>>

scan_vars == <<scan_lines, scan_i, scan_transactions, scan_starts, scan_used>>

batch_vars == <<pdf_files, batch_i, processed_files, failed_files, all_transactions>>

loop_vars == <<scan_vars, batch_vars>>

later_vars == <<handler_vars, config_vars, web_vars, loop_vars>>

\* the variables of later_vars a call of the CurrencyHandler leaves alone
beside_handler == <<config_vars, web_vars, loop_vars>>

\* and a call of the ConfigLoader
beside_config == <<handler_vars, web_vars, loop_vars>>

\* and a request to the web application
beside_web == <<handler_vars, config_vars, loop_vars>>

\* and a run of the line scanner
beside_scan == <<handler_vars, config_vars, web_vars, batch_vars>>

\* and a batch
beside_batch == <<handler_vars, config_vars, web_vars, scan_vars>>

other_vars == <<instance_vars, later_vars>>

mapper_vars == <<FUZZY_AVAILABLE, expense_accounts, description, scores,
                 account, confidence>>

vars == <<pc, line, norm1, norm2, text, statement_year, statement_month,
          sections, scanned, result, raised, T, dedup1, dedup2,
          FUZZY_AVAILABLE, expense_accounts, description, scores,
          account, confidence, other_vars>>

-----------------------------------------------------------------------------
(* Characters and strings *)

Char(s, i) == SubSeq(s, i, i)

UpperAlpha == "ABCDEFGHIJKLMNOPQRSTUVWXYZ"

LowerAlpha == "abcdefghijklmnopqrstuvwxyz"

DigitChars == "0123456789"

CharsOf(s) == { Char(s, i) : i \in 1..Len(s) }

UpperSet == CharsOf(UpperAlpha)

LowerSet == CharsOf(LowerAlpha)

Letters == UpperSet \cup LowerSet

Digits == CharsOf(DigitChars)

\* \s of the re module, restricted to the white space a line can hold
Spaces == {" ", "\t"}

\* \w of the re module
WordChars == Letters \cup Digits \cup {"_"}

IndexIn(alphabet, c) == CHOOSE i \in 1..Len(alphabet) : Char(alphabet, i) = c

\* str.upper() of one character
UpperChar(c) == IF c \in LowerSet THEN Char(UpperAlpha, IndexIn(LowerAlpha, c)) ELSE c

LowerChar(c) == IF c \in UpperSet THEN Char(LowerAlpha, IndexIn(UpperAlpha, c)) ELSE c

\* str.upper(), one half of the string after the other
RECURSIVE Upper(_)
Upper(s) ==
    IF Len(s) = 0 THEN ""
    ELSE IF Len(s) = 1 THEN UpperChar(s)
    ELSE Upper(SubSeq(s, 1, Len(s) \div 2)) \o Upper(SubSeq(s, Len(s) \div 2 + 1, Len(s)))

\* str.replace(c, '') for a single character c
RECURSIVE RemoveChar(_, _)
RemoveChar(s, c) ==
    IF Len(s) = 0 THEN ""
    ELSE IF Len(s) = 1 THEN (IF s = c THEN "" ELSE s)
    ELSE RemoveChar(SubSeq(s, 1, Len(s) \div 2), c)
         \o RemoveChar(SubSeq(s, Len(s) \div 2 + 1, Len(s)), c)

\* the `in` operator on strings: sub occurs in s
Contains(s, sub) ==
    \E i \in 1..(Len(s) - Len(sub) + 1) : SubSeq(s, i, i + Len(sub) - 1) = sub

\* str.strip(): from the first to the last character that is no white space
Min(S) == CHOOSE i \in S : \A j \in S : i <= j

Max(S) == CHOOSE i \in S : \A j \in S : i >= j

Between(s, kept) == IF kept = {} THEN "" ELSE SubSeq(s, Min(kept), Max(kept))

\* r, once v is evaluated: a rewrite is applied to the text the previous
\* rewrite gave, not to a growing chain of pending rewrites
Strict(v, r) == IF v = v THEN r ELSE r

Strip(s) == Between(s, { i \in 1..Len(s) : Char(s, i) \notin Spaces })

-----------------------------------------------------------------------------
(* Patterns of the re module.  A pattern is a sequence of items:           *)
(*   lit  a literal text, compared without regard to case when ic          *)
(*   set  one character of cs (or, with neg, one not in cs), repeated      *)
(*        min..max times (max = -1: unbounded), greedy unless lazy         *)
(*   grp  a sub-pattern repeated min..max times; capturing when cap > 0    *)
(*   alt  the first of several sub-patterns that lets the rest match       *)
(*   bol, eol, wb   the anchors ^, $ and \b                                *)

Rep(item, lo, hi) == [item EXCEPT !.min = lo, !.max = hi]

Star(item) == Rep(item, 0, -1)

Plus(item) == Rep(item, 1, -1)

Lazy(item) == [item EXCEPT !.lazy = TRUE]

OneOf(cs) == [k |-> "set", cs |-> cs, neg |-> FALSE, min |-> 1, max |-> 1, lazy |-> FALSE]

\* `.`: any character but a line break
AnyChar == [k |-> "set", cs |-> {"\n"}, neg |-> TRUE, min |-> 1, max |-> 1, lazy |-> FALSE]

Group(body) == [k |-> "grp", body |-> body, cap |-> 0, min |-> 1, max |-> 1, lazy |-> FALSE]

Capture(n, body) == [k |-> "grp", body |-> body, cap |-> n, min |-> 1, max |-> 1, lazy |-> FALSE]

Alt(alts) == [k |-> "alt", alts |-> alts]

Bol == [k |-> "bol"]

Eol == [k |-> "eol"]

WordB == [k |-> "wb"]

\* a literal, as written in a pattern
Lit(s) == << [k |-> "lit", s |-> s, ic |-> FALSE] >>

\* a literal under re.IGNORECASE
LitI(s) == << [k |-> "lit", s |-> s, ic |-> TRUE] >>

\* the groups of a match: group n spans positions g[n][1] .. g[n][2]-1
NoGroups == [n \in 1..6 |-> <<0, 0>>]

RECURSIVE Flat(_)
Flat(ss) == IF Len(ss) = 0 THEN <<>> ELSE Head(ss) \o Flat(Tail(ss))

IsWordAt(s, i) == i >= 1 /\ i <= Len(s) /\ Char(s, i) \in WordChars

ItemAccepts(item, c) == IF item.neg THEN c \notin item.cs ELSE c \in item.cs

CanRepeat(item, n) == item.max = -1 \/ n < item.max

\* the literal of item stands at position i of s
LitAt(item, s, i) ==
    /\ i + Len(item.s) - 1 <= Len(s)
    /\ \A j \in 1..Len(item.s) :
           IF item.ic THEN UpperChar(Char(s, i + j - 1)) = UpperChar(Char(item.s, j))
           ELSE Char(s, i + j - 1) = Char(item.s, j)

\* how many characters from position i on a set item can take at most
RunUpTo(item, s, i, limit) ==
    CHOOSE n \in 0..limit :
        /\ \A j \in 0..(n - 1) : ItemAccepts(item, Char(s, i + j))
        /\ n = limit \/ ~ItemAccepts(item, Char(s, i + n))

Run(item, s, i) ==
    RunUpTo(item, s, i,
            IF item.max = -1 \/ item.max > Len(s) - i + 1 THEN Len(s) - i + 1 ELSE item.max)

\* with cap > 0, the groups g with group cap spanning positions b .. e-1
WithGroup(g, cap, b, e) == IF cap > 0 THEN [g EXCEPT ![cap] = <<b, e>>] ELSE g

(* The matches of items k.. of pattern re at position i of s, in the order *)
(* in which a backtracking matcher tries them; the first is the match.     *)
RECURSIVE MatchFrom(_, _, _, _, _), MatchItem(_, _, _, _, _, _), MatchSet(_, _, _, _, _, _),
          MatchAlt(_, _, _, _, _, _), MatchGroup(_, _, _, _, _, _),
          MatchRest(_, _, _, _, _), MatchMore(_, _, _, _, _, _, _)
MatchFrom(re, k, s, i, g) ==
    IF k > Len(re) THEN << [e |-> i, g |-> g] >>
    ELSE MatchItem(re, k, s, i, g, re[k])

MatchItem(re, k, s, i, g, item) ==
    CASE item.k = "bol" -> IF i = 1 THEN MatchFrom(re, k + 1, s, i, g) ELSE <<>>
      [] item.k = "eol" -> IF i = Len(s) + 1 THEN MatchFrom(re, k + 1, s, i, g) ELSE <<>>
      [] item.k = "wb"  -> IF IsWordAt(s, i - 1) # IsWordAt(s, i)
                           THEN MatchFrom(re, k + 1, s, i, g) ELSE <<>>
      [] item.k = "lit" -> IF LitAt(item, s, i)
                           THEN MatchFrom(re, k + 1, s, i + Len(item.s), g) ELSE <<>>
      [] item.k = "set" -> MatchSet(re, k, s, i, g, Run(re[k], s, i))
      [] item.k = "grp" -> MatchGroup(re, k, s, i, g, 0)
      [] item.k = "alt" -> Flat([a \in 1..Len(item.alts) |-> MatchAlt(re, k, s, i, g, a)])

\* a greedy item gives back one character at a time, a lazy one takes one
\* more at a time
MatchSet(re, k, s, i, g, run) ==
    Flat([j \in 1..(run - re[k].min + 1) |->
            MatchFrom(re, k + 1, s,
                      i + (IF re[k].lazy THEN re[k].min + j - 1 ELSE run - j + 1), g)])

\* the rest of the pattern after each of the matches rs of item k
MatchRest(re, k, s, g, rs) ==
    Flat([j \in 1..Len(rs) |-> MatchFrom(re, k + 1, s, rs[j].e, rs[j].g)])

MatchAlt(re, k, s, i, g, a) == MatchRest(re, k, s, g, MatchFrom(re[k].alts[a], 1, s, i, g))

\* one more repetition of group k for each of the matches rs of its body
MatchMore(re, k, s, i, g, n, rs) ==
    Flat([j \in 1..Len(rs) |->
            IF n >= re[k].min /\ rs[j].e = i THEN <<>>
            ELSE MatchGroup(re, k, s, rs[j].e, WithGroup(rs[j].g, re[k].cap, i, rs[j].e),
                            n + 1)])

\* group k, repeated n times so far: another repetition first (it is greedy)
MatchGroup(re, k, s, i, g, n) ==
    (IF CanRepeat(re[k], n)
     THEN MatchMore(re, k, s, i, g, n, MatchFrom(re[k].body, 1, s, i, g)) ELSE <<>>)
    \o (IF n >= re[k].min THEN MatchFrom(re, k + 1, s, i, g) ELSE <<>>)

NoMatch == [ok |-> FALSE, b |-> 0, e |-> 0, g |-> NoGroups]

First(rs, i) ==
    IF Len(rs) = 0 THEN NoMatch ELSE [ok |-> TRUE, b |-> i, e |-> rs[1].e, g |-> rs[1].g]

MatchAt(re, s, i) == First(MatchFrom(re, 1, s, i, NoGroups), i)

\* re.match(re, s)
ReMatch(re, s) == MatchAt(re, s, 1)

Leftmost(re, s, hits) == IF hits = {} THEN NoMatch ELSE MatchAt(re, s, Min(hits))

\* the literal of item stands somewhere in s
Occurs(item, s) == \E i \in 1..(Len(s) - Len(item.s) + 1) : LitAt(item, s, i)

\* s holds what every match of re needs: each literal of re, and a character
\* for each set and a body for each group that re has at least once.  A
\* pattern matches nowhere in a text that lacks one of them.
RECURSIVE Feasible(_, _)
Feasible(re, s) ==
    \A k \in 1..Len(re) :
        CASE re[k].k = "lit" -> Occurs(re[k], s)
          [] re[k].k = "set" -> re[k].min = 0 \/ \E i \in 1..Len(s) : ItemAccepts(re[k], Char(s, i))
          [] re[k].k = "grp" -> re[k].min = 0 \/ Feasible(re[k].body, s)
          [] OTHER -> TRUE

\* re.search(re, s) from position i on: the leftmost match
SearchFrom(re, s, i) ==
    IF ~Feasible(re, s) THEN NoMatch
    ELSE Leftmost(re, s, { j \in i..(Len(s) + 1) : MatchAt(re, s, j).ok })

ReSearch(re, s) == SearchFrom(re, s, 1)

\* match.group(n)
GroupOf(m, s, n) == SubSeq(s, m.g[n][1], m.g[n][2] - 1)

\* a replacement template: literal text and group references \n
RECURSIVE Expand(_, _, _)
Expand(repl, m, s) ==
    IF Len(repl) = 0 THEN ""
    ELSE (IF Head(repl).ref > 0 THEN GroupOf(m, s, Head(repl).ref) ELSE Head(repl).lit)
         \o Expand(Tail(repl), m, s)

Text(t) == [ref |-> 0, lit |-> t]

Ref(n) == [ref |-> n, lit |-> ""]

\* re.sub(re, repl, s): every leftmost non-overlapping match replaced; m is
\* the next match from position i on
RECURSIVE SubFrom(_, _, _, _), SubAt(_, _, _, _, _)
SubAt(re, repl, s, i, m) ==
    IF ~m.ok THEN SubSeq(s, i, Len(s))
    ELSE SubSeq(s, i, m.b - 1) \o Expand(repl, m, s)
         \o (IF m.e > m.b THEN SubFrom(re, repl, s, m.e)
             ELSE IF m.b <= Len(s) THEN Char(s, m.b) \o SubFrom(re, repl, s, m.b + 1)
             ELSE "")

SubFrom(re, repl, s, i) == SubAt(re, repl, s, i, SearchFrom(re, s, i))

ReSub(re, repl, s) == SubFrom(re, repl, s, 1)

-----------------------------------------------------------------------------
(* SimplePDFNormalizer *)

months == << "January", "February", "March", "April", "May", "June",
             "July", "August", "September", "October", "November", "December" >>

\* the four patterns of _fix_currency_dots, all under re.IGNORECASE
variations == <<
    LitI("U") \o <<Star(OneOf(Spaces))>> \o Lit(".") \o <<Star(OneOf(Spaces))>> \o LitI("S")
        \o <<Star(OneOf(Spaces))>> \o Lit(".") \o <<Star(OneOf(Spaces))>> \o LitI("Dollar"),
    LitI("U") \o <<Star(OneOf(Spaces))>> \o LitI("S") \o <<Star(OneOf(Spaces))>> \o LitI("Dollar"),
    LitI("U") \o Lit(".") \o LitI("S") \o <<Star(OneOf(Spaces))>> \o LitI("Dollar"),
    LitI("U") \o <<Star(OneOf(Spaces))>> \o Lit(".") \o <<Star(OneOf(Spaces))>> \o LitI("S")
        \o <<Star(OneOf(Spaces))>> \o LitI("Dollar") >>

RECURSIVE FixCurrencyFrom(_, _)
FixCurrencyFrom(t, k) ==
    IF k > Len(variations) THEN t
    ELSE Strict(t, FixCurrencyFrom(ReSub(variations[k], <<Text("U.S.Dollar")>>, t), k + 1))

_fix_currency_dots(t) == FixCurrencyFrom(t, 1)

\* rf'\b{month}(\d{1,2})\b'
MonthDayPattern(month) ==
    <<WordB>> \o LitI(month) \o <<Capture(1, <<Rep(OneOf(Digits), 1, 2)>>), WordB>>

\* rf'\b(\d{1,2}){month}\b'
DayMonthPattern(month) ==
    <<WordB, Capture(1, <<Rep(OneOf(Digits), 1, 2)>>)>> \o LitI(month) \o <<WordB>>

\* the two rewrites of _fix_month_spacing for one month
FixMonth(month, t) ==
    ReSub(DayMonthPattern(month), <<Ref(1), Text(" " \o month)>>,
          ReSub(MonthDayPattern(month), <<Text(month \o " "), Ref(1)>>, t))

RECURSIVE FixMonthFrom(_, _)
FixMonthFrom(t, k) ==
    IF k > Len(months) THEN t
    ELSE Strict(t, FixMonthFrom(FixMonth(months[k], t), k + 1))

_fix_month_spacing(t) == FixMonthFrom(t, 1)

\* -?\d{1,3}(?:,\d{3})*\.\d{2}
AmountPattern ==
    <<Rep(OneOf({"-"}), 0, 1), Rep(OneOf(Digits), 1, 3),
      Star(Group(Lit(",") \o <<Rep(OneOf(Digits), 3, 3)>>))>>
    \o Lit(".") \o <<Rep(OneOf(Digits), 2, 2)>>

\* (\d+)\s*<sep>\s*(\d+)
DigitsSepDigits(sep) ==
    <<Capture(1, <<Plus(OneOf(Digits))>>), Star(OneOf(Spaces))>> \o Lit(sep)
    \o <<Star(OneOf(Spaces)), Capture(2, <<Plus(OneOf(Digits))>>)>>

_fix_amount_spacing(t) ==
    ReSub(<<Capture(1, <<OneOf(Letters)>>), Capture(2, AmountPattern), Eol>>,
          <<Ref(1), Text(" "), Ref(2)>>,
          ReSub(DigitsSepDigits("."), <<Ref(1), Text("."), Ref(2)>>,
                ReSub(DigitsSepDigits(","), <<Ref(1), Text(","), Ref(2)>>, t)))

normalize_line(l) ==
    IF l = "" THEN l
    ELSE _fix_amount_spacing(_fix_month_spacing(_fix_currency_dots(
             ReSub(<<Plus(OneOf(Spaces))>>, <<Text(" ")>>, Strip(l)))))

-----------------------------------------------------------------------------
(* Python values *)

\* None, and a value that is present: an optional value is a sequence of
\* at most one element
None == <<>>

Some(v) == <<v>>

\* `not v` for an optional integer: None and 0 are false
Falsy(v) == v = None \/ v[1] = 0

\* str(v), as an f-string formats an optional integer
Str(v) == IF v = None THEN "None" ELSE ToString(v[1])

DigitVal(c) == IndexIn(DigitChars, c) - 1

RECURSIVE DigitsToInt(_, _)
DigitsToInt(s, acc) ==
    IF Len(s) = 0 THEN acc
    ELSE DigitsToInt(SubSeq(s, 2, Len(s)), acc * 10 + DigitVal(Char(s, 1)))

\* a decimal num / 10^scale without trailing zeros in its fraction: two
\* decimals denote the same float iff they normalise to the same pair
RECURSIVE Normal(_, _)
Normal(num, scale) ==
    IF scale > 0 /\ num % 10 = 0 THEN Normal(num \div 10, scale - 1)
    ELSE <<num, scale>>

(* float(s) for s made of digits, '.' and a leading '-': ValueError unless *)
(* s is [-]digits[.digits] with a digit on at least one side of the point. *)
Unsigned(body, dot) ==
    IF /\ \A i \in 1..Len(body) : Char(body, i) \in Digits \/ i = dot
       /\ Len(body) > (IF dot <= Len(body) THEN 1 ELSE 0)
    THEN [ok |-> TRUE,
          v  |-> Normal(DigitsToInt(SubSeq(body, 1, dot - 1) \o SubSeq(body, dot + 1, Len(body)), 0),
                        IF dot <= Len(body) THEN Len(body) - dot ELSE 0)]
    ELSE [ok |-> FALSE, v |-> <<0, 0>>]

\* the place of the first '.' of body, Len(body) + 1 when it has none
FirstDot(body) == Min({ i \in 1..Len(body) : Char(body, i) = "." } \cup {Len(body) + 1})

Negated(f) == [f EXCEPT !.v = <<0 - f.v[1], f.v[2]>>]

float(s) ==
    IF Len(s) > 0 /\ Char(s, 1) = "-"
    THEN Negated(Unsigned(SubSeq(s, 2, Len(s)), FirstDot(SubSeq(s, 2, Len(s)))))
    ELSE Unsigned(s, FirstDot(s))

-----------------------------------------------------------------------------
(* TransactionParser *)

\* every pattern is searched under re.IGNORECASE
skip_patterns == <<
    LitI("Statement of Account"), LitI("Customer Number"), LitI("Previous Balance"),
    LitI("Past Due"), LitI("Ending Balance"), LitI("Unbilled Installment"),
    <<Bol>> \o LitI("Finance Charge") \o <<Plus(OneOf(Spaces)), OneOf(Digits)>>,
    LitI("GIOVANNI BACAREZA"),
    LitI("Transaction") \o <<Plus(OneOf(Spaces))>> \o LitI("Post") \o <<Star(AnyChar)>>
        \o LitI("Date"),
    <<Bol, Rep(OneOf(Digits), 6, 6)>> \o Lit("-") \o <<OneOf(Digits)>> \o Lit("-")
        \o <<Rep(OneOf(Digits), 2, 2)>> \o Lit("-") \o <<Rep(OneOf(Digits), 7, 7)>>,
    <<Bol, Capture(1, <<Alt(<<LitI("Date"), LitI("Transaction"), LitI("Post Date"),
                             LitI("Description"), LitI("Amount")>>)>>),
      Star(OneOf(Spaces)), Eol>> >>

_should_skip(l) == \E k \in 1..Len(skip_patterns) : ReSearch(skip_patterns[k], l).ok

\* datetime.strptime(month_name, "%B").month, else "%b", else 0 (ValueError);
\* strptime compares month names without regard to case
MonthNum(month_name) ==
    IF \E k \in 1..12 : Upper(months[k]) = Upper(month_name)
    THEN CHOOSE k \in 1..12 : Upper(months[k]) = Upper(month_name)
    ELSE IF \E k \in 1..12 : Upper(SubSeq(months[k], 1, 3)) = Upper(month_name)
    THEN CHOOSE k \in 1..12 : Upper(SubSeq(months[k], 1, 3)) = Upper(month_name)
    ELSE 0

_determine_transaction_year(month_name, year, month) ==
    IF month_name = "" \/ Falsy(year) THEN year
    ELSE IF MonthNum(month_name) = 0 THEN year
    ELSE IF MonthNum(month_name) = 12 /\ month = Some(1) THEN Some(year[1] - 1)
    ELSE year

\* ^([A-Za-z]+)\s+(\d{1,2})\s+([A-Za-z]+)\s+(\d{1,2})\s+
DatesPattern ==
    <<Bol, Capture(1, <<Plus(OneOf(Letters))>>), Plus(OneOf(Spaces)),
      Capture(2, <<Rep(OneOf(Digits), 1, 2)>>), Plus(OneOf(Spaces)),
      Capture(3, <<Plus(OneOf(Letters))>>), Plus(OneOf(Spaces)),
      Capture(4, <<Rep(OneOf(Digits), 1, 2)>>), Plus(OneOf(Spaces))>>

\* ...(.+?)\s+(-?\d{1,3}(?:,\d{3})*\.\d{2})$
pattern ==
    DatesPattern \o <<Capture(5, <<Lazy(Plus(AnyChar))>>), Plus(OneOf(Spaces)),
                      Capture(6, AmountPattern), Eol>>

\* ...(.+?)\s+([A-Z]{2,3})$
pattern1 ==
    DatesPattern \o <<Capture(5, <<Lazy(Plus(AnyChar))>>), Plus(OneOf(Spaces)),
                      Capture(6, <<Rep(OneOf(UpperSet), 2, 3)>>), Eol>>

\* ^U\.S\.Dollar\s+([\d.,]+)\s+(\d{1,3}(?:,\d{3})*\.\d{2})$
pattern2 ==
    <<Bol>> \o Lit("U.S.Dollar")
    \o <<Plus(OneOf(Spaces)), Capture(1, <<Plus(OneOf(Digits \cup {".", ","}))>>),
         Plus(OneOf(Spaces)),
         Capture(2, SubSeq(AmountPattern, 2, Len(AmountPattern))), Eol>>

\* the statement_month argument that _parse_single_line and _parse_two_lines
\* hand to _determine_transaction_year: they pass none, so its default
PassedStatementMonth == None

\* the result of a parsing step: a record, no record (None), or ValueError
NoTransaction == [ok |-> FALSE, raised |-> FALSE]

Raise == [ok |-> FALSE, raised |-> TRUE]

Transaction(tx) == [ok |-> TRUE, raised |-> FALSE, tx |-> tx]

\* f"{month} {day} {year}", the year being the one resolved for the month
DateOf(month, day, year) ==
    month \o " " \o day \o " "
    \o Str(_determine_transaction_year(month, year, PassedStatementMonth))

\* the dict that _parse_single_line builds from its match
SingleLine(match, l, card_name, year, amount) ==
    IF ~amount.ok THEN Raise
    ELSE Transaction(
        [card |-> card_name,
         transaction_date |-> DateOf(GroupOf(match, l, 1), GroupOf(match, l, 2), year),
         post_date |-> DateOf(GroupOf(match, l, 3), GroupOf(match, l, 4), year),
         description |-> Strip(GroupOf(match, l, 5)),
         amount |-> amount.v,
         currency |-> "PHP",
         foreign_amount |-> None])

SingleLineIf(match, l, card_name, year) ==
    IF ~match.ok THEN NoTransaction
    ELSE SingleLine(match, l, card_name, year, float(RemoveChar(GroupOf(match, l, 6), ",")))

_parse_single_line(l, card_name, year) ==
    SingleLineIf(ReMatch(pattern, l), l, card_name, year)

\* the currency a country code is tagged with
CurrencyOf(country_code) ==
    IF country_code = "US" THEN "USD" ELSE IF country_code = "SG" THEN "SGD" ELSE "NZD"

\* the dict that _parse_two_lines builds from its matches
TwoLines(match1, line1, card_name, year, amount, foreign) ==
    IF ~amount.ok \/ ~foreign.ok THEN Raise
    ELSE Transaction(
        [card |-> card_name,
         transaction_date |-> DateOf(GroupOf(match1, line1, 1), GroupOf(match1, line1, 2), year),
         post_date |-> DateOf(GroupOf(match1, line1, 3), GroupOf(match1, line1, 4), year),
         description |-> Strip(GroupOf(match1, line1, 5)),
         amount |-> amount.v,
         currency |-> CurrencyOf(GroupOf(match1, line1, 6)),
         foreign_amount |-> Some(foreign.v)])

TwoLinesIf(match1, match2, line1, line2, card_name, year) ==
    IF ~(match1.ok /\ match2.ok) THEN NoTransaction
    ELSE TwoLines(match1, line1, card_name, year,
                  float(RemoveChar(GroupOf(match2, line2, 2), ",")),
                  float(RemoveChar(GroupOf(match2, line2, 1), ",")))

_parse_two_lines(line1, line2, card_name, year) ==
    TwoLinesIf(ReMatch(pattern1, line1), ReMatch(pattern2, line2), line1, line2,
               card_name, year)

(* _parse_card_section over the lines of a section.  at[i] is the place *)
(* of lines[i] in the statement text; each record read is tagged with the  *)
(* place of its (first) line in the history field src, which no code reads.*)
Tagged(tx, n) == tx @@ ("src" :> n)

Raised == [raised |-> TRUE, transactions |-> <<>>]

RECURSIVE ScanFrom(_, _, _, _, _, _), ScanLine(_, _, _, _, _, _, _),
          ScanNorm(_, _, _, _, _, _, _), ScanSingle(_, _, _, _, _, _, _, _), ScanTwo(_, _, _, _, _, _, _)
\* the while loop, at line i (counted from 1)
ScanFrom(lines, at, card_name, year, i, transactions) ==
    IF i > Len(lines) THEN [raised |-> FALSE, transactions |-> transactions]
    ELSE ScanLine(lines, at, card_name, year, i, transactions, Strip(lines[i]))

\* l is lines[i].strip()
ScanLine(lines, at, card_name, year, i, transactions, l) ==
    IF l = "" \/ _should_skip(l)
    THEN ScanFrom(lines, at, card_name, year, i + 1, transactions)
    ELSE ScanNorm(lines, at, card_name, year, i, transactions, normalize_line(l))

\* norm_line is self.normalizer.normalize_line(line)
ScanNorm(lines, at, card_name, year, i, transactions, norm_line) ==
    ScanSingle(lines, at, card_name, year, i, transactions, norm_line,
               _parse_single_line(norm_line, card_name, year))

\* single is what _parse_single_line made of norm_line
ScanSingle(lines, at, card_name, year, i, transactions, norm_line, single) ==
    IF single.raised THEN Raised
    ELSE IF single.ok
    THEN ScanFrom(lines, at, card_name, year, i + 1,
                  Append(transactions, Tagged(single.tx, at[i])))
    ELSE IF i + 1 <= Len(lines)
    THEN ScanTwo(lines, at, card_name, year, i, transactions,
                 _parse_two_lines(norm_line, normalize_line(Strip(lines[i + 1])),
                                  card_name, year))
    ELSE ScanFrom(lines, at, card_name, year, i + 1, transactions)

\* two is what _parse_two_lines made of norm_line and the normalized next line
ScanTwo(lines, at, card_name, year, i, transactions, two) ==
    IF two.raised THEN Raised
    ELSE IF two.ok
    THEN ScanFrom(lines, at, card_name, year, i + 2,
                  Append(transactions, Tagged(two.tx, at[i])))
    ELSE ScanFrom(lines, at, card_name, year, i + 1, transactions)

_parse_card_section(section, year) ==
    ScanFrom(section.lines, section.at, section.card, year, 1, <<>>)

\* the card identifiers that mark a header line
GoldPatterns == {"BPIGOLDREWARDS", "GOLDREWARDS", "BPIEXPRESSCREDITGOLDMASTERCARD"}

ECreditPatterns == {"BPIECREDIT", "ECREDITCARD"}

\* the first test of _split_by_cards, on norm_line = normalize_line(line).upper()
IsGoldHeader(norm_line) ==
    \E p \in GoldPatterns : Contains(RemoveChar(norm_line, " "), p)

\* the test of the elif branch, reached only when the first test fails
IsECreditHeader(norm_line) ==
    /\ \E p \in ECreditPatterns :
           Contains(RemoveChar(RemoveChar(norm_line, " "), "-"), p)
    /\ ~Contains(norm_line, "GOLD")

\* the two tests in the other order, the second without its GOLD exclusion
BranchECreditFirst(norm_line) ==
    IF \E p \in ECreditPatterns : Contains(RemoveChar(RemoveChar(norm_line, " "), "-"), p)
    THEN "BPI ECREDIT CARD"
    ELSE IF IsGoldHeader(norm_line) THEN "BPI GOLD REWARDS CARD"
    ELSE ""

\* the branch of the loop body that norm_line selects: the card whose
\* section the line starts, "" when the line is no header
Branch(norm_line) ==
    IF IsGoldHeader(norm_line) THEN "BPI GOLD REWARDS CARD"
    ELSE IF IsECreditHeader(norm_line) THEN "BPI ECREDIT CARD"
    ELSE ""

HeaderCard(l) == Branch(Upper(normalize_line(l)))

(* A dict, in insertion order, as a sequence of entries with distinct      *)
(* cards: sections[card] = entry keeps the place of a card already there.  *)
DictSet(d, entry) ==
    IF \E p \in 1..Len(d) : d[p].card = entry.card
    THEN [p \in 1..Len(d) |-> IF d[p].card = entry.card THEN entry ELSE d[p]]
    ELSE Append(d, entry)

\* '\n'.join(current_section), stored under current_card; the text is kept
\* as its lines (no line holds a line break), with their places in at
Section(card, lines, at) == [card |-> card, lines |-> lines, at |-> at]

\* if current_card and current_section: sections[current_card] = ...
Flush(st) ==
    IF st.current_card # "" /\ Len(st.current_section) > 0
    THEN DictSet(st.sections, Section(st.current_card, st.current_section, st.current_at))
    ELSE st.sections

\* a loop body that opens a section at the first header only
SplitStepFirstCardOnly(st, l, i, card) ==
    IF card # "" /\ st.current_card = ""
    THEN [sections |-> Flush(st), current_card |-> card,
          current_section |-> <<l>>, current_at |-> <<i>>]
    ELSE IF st.current_card # ""
    THEN [st EXCEPT !.current_section = Append(@, l), !.current_at = Append(@, i)]
    ELSE st

\* the loop body for line l at place i, card being HeaderCard(l)
SplitStep(st, l, i, card) ==
    IF card # ""
    THEN [sections |-> Flush(st), current_card |-> card,
          current_section |-> <<l>>, current_at |-> <<i>>]
    ELSE IF st.current_card # ""
    THEN [st EXCEPT !.current_section = Append(@, l), !.current_at = Append(@, i)]
    ELSE st

RECURSIVE SplitFrom(_, _, _)
SplitFrom(lines, i, st) ==
    IF i > Len(lines) THEN st
    ELSE Strict(st, SplitFrom(lines, i + 1, SplitStep(st, lines[i], i, HeaderCard(lines[i]))))

\* the fallback without its `if not sections` test
OrUnknownAlways(found, lines) ==
    Append(found, Section("UNKNOWN_CARD", lines, [i \in 1..Len(lines) |-> i]))

\* if not sections: sections['UNKNOWN_CARD'] = text
OrUnknown(found, lines) ==
    IF Len(found) = 0
    THEN <<Section("UNKNOWN_CARD", lines, [i \in 1..Len(lines) |-> i])>>
    ELSE found

_split_by_cards(lines) ==
    OrUnknown(Flush(SplitFrom(lines, 1, [sections |-> <<>>, current_card |-> "",
                                         current_section |-> <<>>, current_at |-> <<>>])),
              lines)

Key(transaction) ==
    <<transaction.transaction_date, transaction.post_date, transaction.description,
      transaction.amount, transaction.currency>>

\* the loop with its test inverted: a record is kept when its key was seen
RECURSIVE DedupFromInverted(_, _, _, _)
DedupFromInverted(transactions, i, seen, unique) ==
    IF i > Len(transactions) THEN unique
    ELSE IF Key(transactions[i]) \in seen
    THEN DedupFromInverted(transactions, i + 1, seen, Append(unique, transactions[i]))
    ELSE DedupFromInverted(transactions, i + 1, seen \cup {Key(transactions[i])}, unique)

\* a loop that keeps, in the place of the first record of a key, the last one
RECURSIVE DedupFromKeepLast(_, _, _, _)
DedupFromKeepLast(transactions, i, seen, unique) ==
    IF i > Len(transactions) THEN unique
    ELSE IF Key(transactions[i]) \notin seen
    THEN DedupFromKeepLast(transactions, i + 1, seen \cup {Key(transactions[i])},
                           Append(unique, transactions[i]))
    ELSE DedupFromKeepLast(transactions, i + 1, seen,
                           [n \in 1..Len(unique) |->
                               IF Key(unique[n]) = Key(transactions[i])
                               THEN transactions[i] ELSE unique[n]])

RECURSIVE DedupFrom(_, _, _, _)
DedupFrom(transactions, i, seen, unique) ==
    IF i > Len(transactions) THEN unique
    ELSE IF Key(transactions[i]) \notin seen
    THEN DedupFrom(transactions, i + 1, seen \cup {Key(transactions[i])},
                   Append(unique, transactions[i]))
    ELSE DedupFrom(transactions, i + 1, seen, unique)

_remove_duplicates(transactions) == DedupFrom(transactions, 1, {}, <<>>)

\* the loop of parse_transactions over card_sections.items()
RECURSIVE ParseSections(_, _, _, _), ExtendWith(_, _, _, _, _)
ParseSections(card_sections, year, k, transactions) ==
    IF k > Len(card_sections) THEN [raised |-> FALSE, transactions |-> transactions]
    ELSE ExtendWith(card_sections, year, k, transactions,
                    _parse_card_section(card_sections[k], year))

ExtendWith(card_sections, year, k, transactions, card_transactions) ==
    IF card_transactions.raised THEN Raised
    ELSE ParseSections(card_sections, year, k + 1,
                       transactions \o card_transactions.transactions)

\* what parse_transactions gives for the sections and all their transactions
Outcome(card_sections, all) ==
    [raised   |-> IF all.raised THEN "ValueError" ELSE "none",
     sections |-> card_sections,
     scanned  |-> all.transactions,
     result   |-> IF all.raised THEN <<>> ELSE _remove_duplicates(all.transactions)]

ParseAll(card_sections, year) ==
    Outcome(card_sections, ParseSections(card_sections, year, 1, <<>>))

parse_transactions(lines, year) == ParseAll(_split_by_cards(lines), year)

-----------------------------------------------------------------------------
(* account_mapper.py: AccountMapper *)

\* str.lower(), one half of the string after the other
RECURSIVE Lower(_)
Lower(s) ==
    IF Len(s) = 0 THEN ""
    ELSE IF Len(s) = 1 THEN LowerChar(s)
    ELSE Lower(SubSeq(s, 1, Len(s) \div 2)) \o Lower(SubSeq(s, Len(s) \div 2 + 1, Len(s)))

\* self.known_mappings, a dict in its insertion order: <<pattern, account>>.
\* The ligature U+FB02 of the twentieth key is written "~" here.
known_mappings ==
    <<<<"Apple.Com/Bill Itunes.Com", "Expenses:Entertainment:Music/Movies">>,
      <<"Payment -Thank You", "Liabilities:Credit Card:BPI Mastercard">>,
      <<"Metromart Makati", "Expenses:Food:Groceries">>,
      <<"Google *Youtubepremium", "Expenses:Entertainment:Music/Movies">>,
      <<"Audible*", "Expenses:Education:Books">>,
      <<"Nintendo Cd", "Expenses:Entertainment:Recreation">>,
      <<"Google *Minecraft", "Expenses:Entertainment:Recreation">>,
      <<"Scribd Inc*588895228 SanFrancisco", "Expenses:Professional Development & Productivity">>,
      <<"Google Cloud", "Expenses:Professional Development & Productivity">>,
      <<"Netflix.Com", "Expenses:Entertainment:Music/Movies">>,
      <<"Medium Monthly SanFrancisco", "Expenses:Professional Development & Productivity">>,
      <<"DJ*Wall-St-Journal", "Expenses:Education:Newspaper & Magazines">>,
      <<"DJ*Wsj", "Expenses:Education:Newspaper & Magazines">>,
      <<"Backblaze", "Expenses:Professional Development & Productivity">>,
      <<"Epic!Reading", "Expenses:Childcare:Books">>,
      <<"Grab Makati", "Expenses:Professional Fees">>,
      <<"AmznDigital*", "Expenses:Education:Books">>,
      <<"Epic! Reading", "Expenses:Childcare:Books">>,
      <<"Getepic.Com", "Expenses:Childcare:Books">>,
      <<"Net~ix.Com", "Expenses:Entertainment:Music/Movies">>,
      <<"Paypal *Dotphdomain", "Assets:Investments:Investment in Business">>,
      <<"Reversal-Finance Charges", "Expenses:Banking Costs:Bank Service Charge">>,
      <<"Smart App", "Expenses:Utilities:Mobile">>,
      <<"TiezaNaiaT3", "Expenses:Travel:Fare">>,
      <<"Wsj/Barrons Subscripti", "Expenses:Education:Newspaper & Magazines">>>>

\* self.keyword_rules, a dict in its insertion order: <<keyword, accounts>>
keyword_rules ==
    <<<<"apple", <<"Expenses:Entertainment:Music/Movies">>>>,
      <<"google", <<"Expenses:Professional Development & Productivity">>>>,
      <<"audible", <<"Expenses:Education:Books">>>>,
      <<"netflix", <<"Expenses:Entertainment:Music/Movies">>>>,
      <<"nintendo", <<"Expenses:Entertainment:Recreation">>>>,
      <<"amazon", <<"Expenses:Household Supplies">>>>,
      <<"scribd", <<"Expenses:Professional Development & Productivity">>>>,
      <<"medium", <<"Expenses:Professional Development & Productivity">>>>,
      <<"backblaze", <<"Expenses:Professional Development & Productivity">>>>,
      <<"microsoft", <<"Expenses:Professional Development & Productivity">>>>,
      <<"notion", <<"Expenses:Professional Development & Productivity">>>>,
      <<"lastpass", <<"Expenses:Professional Development & Productivity">>>>,
      <<"curiositystream", <<"Expenses:Entertainment:Music/Movies">>>>,
      <<"economist", <<"Expenses:Education:Newspaper & Magazines">>>>,
      <<"myfitnesspal", <<"Expenses:Health">>>>,
      <<"ground news", <<"Expenses:Education:Newspaper & Magazines">>>>,
      <<"hbogoasia", <<"Expenses:Entertainment:Music/Movies">>>>,
      <<"minecraft", <<"Expenses:Entertainment:Recreation">>>>,
      <<"shopee", <<"Expenses:Household Supplies">>>>,
      <<"lazada", <<"Expenses:Household Supplies">>>>,
      <<"shein", <<"Expenses:Clothes">>>>,
      <<"metromart", <<"Expenses:Food:Groceries">>>>,
      <<"grab", <<"Expenses:Professional Fees">>>>,
      <<"food panda", <<"Expenses:Food:Dining">>>>,
      <<"foodpanda", <<"Expenses:Food:Dining">>>>,
      <<"cafe", <<"Expenses:Food:Dining">>>>,
      <<"chicken", <<"Expenses:Food:Dining">>>>,
      <<"tonkatsu", <<"Expenses:Food:Dining">>>>,
      <<"grill", <<"Expenses:Food:Dining">>>>,
      <<"restaurant", <<"Expenses:Food:Dining">>>>,
      <<"dynasty", <<"Expenses:Food:Dining">>>>,
      <<"taxumo", <<"Expenses:Professional Fees">>>>,
      <<"paypal", <<"Manual Review">>>>,
      <<"godaddy", <<"Assets:Investments:Investment in Business">>>>,
      <<"sharesight", <<"Expenses:Professional Development & Productivity">>>>,
      <<"meralco", <<"Expenses:Utilities:Electric">>>>,
      <<"s&r", <<"Expenses:Food:Groceries">>>>,
      <<"hotel", <<"Expenses:Travel:Hotel">>>>,
      <<"amzndigital", <<"Expenses:Education:Books">>>>,
      <<"getepic", <<"Expenses:Childcare:Books">>>>,
      <<"dotphdomain", <<"Assets:Investments:Investment in Business">>>>,
      <<"reversal", <<"Expenses:Banking Costs:Bank Service Charge">>>>,
      <<"smart app", <<"Expenses:Utilities:Mobile">>>>,
      <<"tiezanaia", <<"Expenses:Travel:Fare">>>>,
      <<"barrons", <<"Expenses:Education:Newspaper & Magazines">>>>,
      <<"payment", <<"Liabilities:Credit Card:BPI Mastercard">>>>,
      <<"thank you", <<"Liabilities:Credit Card:BPI Mastercard">>>>,
      <<"finance charge", <<"Expenses:Banking Costs:Interest">>>>>>

fuzzy_threshold == 80

keyword_threshold == 70

general_threshold == 60

\* list(self.known_mappings.keys())
known_patterns == [k \in 1..Len(known_mappings) |-> known_mappings[k][1]]

\* self.known_mappings[match]
Lookup(match) ==
    known_mappings[CHOOSE k \in 1..Len(known_mappings) : known_mappings[k][1] = match][2]

\* process.extractOne(query, choices): the choice fuzzywuzzy scores highest
\* with its score, the first of them on a tie, None for no choice at all.
\* ratio[i] is the score the library gives choices[i] for the query.
extractOne(choices, ratio) ==
    IF choices = <<>> THEN None
    ELSE LET best == Min({ i \in 1..Len(choices) :
                            \A j \in 1..Len(choices) : ratio[j] <= ratio[i] })
         IN  <<choices[best], ratio[best]>>

\* `return value`; raised is "TypeError" where `match, score = None` is run
Return(value) == [raised |-> "none", account |-> value]

\* Strategy 5: Default categorization based on common patterns
SmartFallback(desc_lower) ==
    IF \E word \in {"payment", "thank you", "credit"} : Contains(desc_lower, word)
    THEN Return("Liabilities:Credit Card:BPI Mastercard")
    ELSE IF \E word \in {"restaurant", "cafe", "dining", "food"} : Contains(desc_lower, word)
    THEN Return("Expenses:Food:Dining")
    ELSE IF \E word \in {"store", "shop", "market", "mall"} : Contains(desc_lower, word)
    THEN Return("Expenses:Electronics & Software")
    ELSE IF \E word \in {"transport", "taxi", "grab", "uber"} : Contains(desc_lower, word)
    THEN Return("Expenses:Professional Fees")
    ELSE Return("Manual Review")

\* the step without its test for a loaded list
GeneralFuzzyUnguarded(desc_lower, fuzzy, accounts, ratios) ==
    IF fuzzy
    THEN LET found == extractOne(accounts, ratios.general)
         IN  IF found = None THEN [raised |-> "TypeError", account |-> ""]
             ELSE IF found[2] >= general_threshold THEN Return(found[1])
             ELSE SmartFallback(desc_lower)
    ELSE SmartFallback(desc_lower)

\* Strategy 4: Fuzzy match against all expense accounts
GeneralFuzzy(desc_lower, fuzzy, accounts, ratios) ==
    IF fuzzy /\ accounts # <<>>
    THEN LET found == extractOne(accounts, ratios.general)
         IN  IF found = None THEN [raised |-> "TypeError", account |-> ""]
             ELSE IF found[2] >= general_threshold THEN Return(found[1])
             ELSE SmartFallback(desc_lower)
    ELSE SmartFallback(desc_lower)

\* the body of `if keyword in desc_lower`: the rule's first account, or the
\* loaded account closest to it
KeywordAccount(candidates, fuzzy, accounts, ratios) ==
    IF accounts # <<>> /\ fuzzy
    THEN LET found == extractOne(accounts, ratios.keyword)
         IN  IF found = None THEN [raised |-> "TypeError", account |-> ""]
             ELSE IF found[2] >= keyword_threshold THEN Return(found[1])
             ELSE Return(candidates[1])
    ELSE Return(candidates[1])

\* the rules whose keyword is in desc_lower
KeywordsIn(desc_lower) ==
    { k \in 1..Len(keyword_rules) : Contains(desc_lower, keyword_rules[k][1]) }

\* the last of the matching rules
KeywordHitLast(matching) == Max(matching)

\* the rule the loop over self.keyword_rules.items() stops at
KeywordHit(matching) == Min(matching)

\* Strategy 3: Keyword-based matching
KeywordMatch(desc_lower, fuzzy, accounts, ratios) ==
    IF KeywordsIn(desc_lower) # {}
    THEN KeywordAccount(keyword_rules[KeywordHit(KeywordsIn(desc_lower))][2],
                        fuzzy, accounts, ratios)
    ELSE GeneralFuzzy(desc_lower, fuzzy, accounts, ratios)

\* the step with a threshold the score has to exceed
FuzzyKnownExclusive(desc_lower, fuzzy, accounts, ratios) ==
    IF fuzzy /\ known_mappings # <<>>
    THEN LET found == extractOne(known_patterns, ratios.known)
         IN  IF found = None THEN [raised |-> "TypeError", account |-> ""]
             ELSE IF found[2] > fuzzy_threshold THEN Return(Lookup(found[1]))
             ELSE KeywordMatch(desc_lower, fuzzy, accounts, ratios)
    ELSE KeywordMatch(desc_lower, fuzzy, accounts, ratios)

\* Strategy 2: Fuzzy matching against known patterns
FuzzyKnown(desc_lower, fuzzy, accounts, ratios) ==
    IF fuzzy /\ known_mappings # <<>>
    THEN LET found == extractOne(known_patterns, ratios.known)
         IN  IF found = None THEN [raised |-> "TypeError", account |-> ""]
             ELSE IF found[2] >= fuzzy_threshold THEN Return(Lookup(found[1]))
             ELSE KeywordMatch(desc_lower, fuzzy, accounts, ratios)
    ELSE KeywordMatch(desc_lower, fuzzy, accounts, ratios)

\* pattern.lower() of every key
lower_patterns == [k \in 1..Len(known_mappings) |-> Lower(known_mappings[k][1])]

\* the keys with pattern.lower() in description.lower()
KnownIn(desc_lower) ==
    { k \in 1..Len(known_mappings) : Contains(desc_lower, lower_patterns[k]) }

\* the last of the matching keys
KnownHitLast(matching) == Max(matching)

\* the key the loop over self.known_mappings.items() stops at
KnownHit(matching) == Min(matching)

\* the keyword rules tried before the known mappings
KnownMatchKeywordFirst(desc_lower, fuzzy, accounts, ratios) ==
    IF KeywordsIn(desc_lower) # {}
    THEN KeywordAccount(keyword_rules[KeywordHit(KeywordsIn(desc_lower))][2],
                        fuzzy, accounts, ratios)
    ELSE IF KnownIn(desc_lower) # {}
    THEN Return(known_mappings[KnownHit(KnownIn(desc_lower))][2])
    ELSE FuzzyKnown(desc_lower, fuzzy, accounts, ratios)

\* Strategy 1: Exact known mappings (substring match)
KnownMatch(desc_lower, fuzzy, accounts, ratios) ==
    IF KnownIn(desc_lower) # {}
    THEN Return(known_mappings[KnownHit(KnownIn(desc_lower))][2])
    ELSE FuzzyKnown(desc_lower, fuzzy, accounts, ratios)

\* a test for the missing description only
NotDescriptionNoneOnly(desc) == desc = None

\* `not description`: None and '' are false
NotDescription(desc) == desc = None \/ desc[1] = ""

map_description_to_account(desc, fuzzy, accounts, ratios) ==
    IF NotDescription(desc) THEN Return("Manual Review")
    ELSE KnownMatch(Lower(desc[1]), fuzzy, accounts, ratios)

get_mapping_confidence(desc, fuzzy, accounts, ratios) ==
    IF NotDescription(desc) THEN Return("Manual Review") @@ ("score" :> 0)
    ELSE IF KnownIn(Lower(desc[1])) # {}
    THEN Return(known_mappings[KnownHit(KnownIn(Lower(desc[1])))][2]) @@ ("score" :> 100)
    ELSE IF fuzzy /\ known_mappings # <<>>
    THEN LET found == extractOne(known_patterns, ratios.known)
         IN  IF found = None
             THEN [raised |-> "TypeError", account |-> "", score |-> 0]
             ELSE IF found[2] >= fuzzy_threshold
             THEN Return(Lookup(found[1])) @@ ("score" :> found[2])
             ELSE map_description_to_account(desc, fuzzy, accounts, ratios)
                  @@ ("score" :> 50)
    ELSE map_description_to_account(desc, fuzzy, accounts, ratios) @@ ("score" :> 50)

\* [self.map_description_to_account(desc) for desc in descriptions]
batch_map_descriptions(descs, fuzzy, accounts, ratios) ==
    LET each == [i \in 1..Len(descs) |->
                     map_description_to_account(descs[i], fuzzy, accounts, ratios)]
    IN  IF \E i \in 1..Len(descs) : each[i].raised # "none"
        THEN [raised |-> "TypeError", accounts |-> <<>>]
        ELSE [raised |-> "none", accounts |-> [i \in 1..Len(descs) |-> each[i].account]]

\* mapped_accounts.count(value)
Count(accounts, value) == Cardinality({ i \in 1..Len(accounts) : accounts[i] = value })

\* the division is by the number of descriptions; the quotient is kept as
\* <<numerator, denominator>>
get_mapping_summary(descs, fuzzy, accounts, ratios) ==
    LET mapped == batch_map_descriptions(descs, fuzzy, accounts, ratios)
    IN  IF mapped.raised # "none" THEN [raised |-> mapped.raised, summary |-> <<>>]
        ELSE IF Len(descs) = 0 THEN [raised |-> "ZeroDivisionError", summary |-> <<>>]
        ELSE [raised |-> "none",
              summary |->
                  [total_transactions |-> Len(descs),
                   manual_review_count |-> Count(mapped.accounts, "Manual Review"),
                   auto_mapped_count |->
                       Len(descs) - Count(mapped.accounts, "Manual Review"),
                   account_distribution |->
                       [a \in { mapped.accounts[i] : i \in 1..Len(descs) } |->
                            Count(mapped.accounts, a)],
                   auto_mapping_percentage |->
                       <<(Len(descs) - Count(mapped.accounts, "Manual Review")) * 100,
                         Len(descs)>>]]

\* acc.startswith('Expenses:')
IsExpense(acc) == Len(acc) >= 9 /\ SubSeq(acc, 1, 9) = "Expenses:"

\* AccountMapper(accounts_csv_path), the CSV giving the account names loaded
AccountMapper(loaded) ==
    [all_accounts |-> loaded,
     expense_accounts |-> SelectSeq(loaded, IsExpense),
     known_mappings |-> known_mappings,
     keyword_rules |-> keyword_rules,
     fuzzy_threshold |-> fuzzy_threshold,
     keyword_threshold |-> keyword_threshold,
     general_threshold |-> general_threshold]

\* a mapper that learns the description it has classified
ClassifiedLearns(instance, desc, value) ==
    [instance EXCEPT !.known_mappings = Append(@, <<desc, value>>)]

\* self after a call of map_description_to_account, get_mapping_confidence,
\* batch_map_descriptions or get_mapping_summary: none assigns to self
Classified(instance, desc, value) == instance

-----------------------------------------------------------------------------
(* currency_handler.py: CurrencyHandler *)

\* a cell of a DataFrame: a string, a datetime (a = year, b = month,
\* c = day), a number a / 10^b, or a missing value (None, NaN, NaT)
StrCell(s) == [kind |-> "str", text |-> s, a |-> 0, b |-> 0, c |-> 0]

DateCell(y, m, d) == [kind |-> "datetime", text |-> "", a |-> y, b |-> m, c |-> d]

NumCell(n, scale) == [kind |-> "float", text |-> "", a |-> n, b |-> scale, c |-> 0]

Missing == [kind |-> "None", text |-> "", a |-> 0, b |-> 0, c |-> 0]

\* the days of a month of the proleptic Gregorian calendar
DaysInMonth(y, m) ==
    IF m = 2 THEN (IF y % 4 = 0 /\ (y % 100 # 0 \/ y % 400 = 0) THEN 29 ELSE 28)
    ELSE IF m \in {4, 6, 9, 11} THEN 30 ELSE 31

\* "%B %d %Y" and "%b %d %Y" as strptime compiles them: a month name,
\* \s+, a day, \s+, four digits, and nothing after
DateFormat ==
    <<Capture(1, <<Plus(OneOf(Letters))>>), Plus(OneOf(Spaces)),
      Capture(2, <<Rep(OneOf(Digits), 1, 2)>>), Plus(OneOf(Spaces)),
      Capture(3, <<Rep(OneOf(Digits), 4, 4)>>), Eol>>

\* the datetime of a match of DateFormat, Missing for ValueError: names are
\* the month names of the directive, compared without regard to case
DateOfMatch(m, date_string, names) ==
    IF ~m.ok THEN Missing
    ELSE IF \A k \in 1..12 : Upper(names[k]) # Upper(GroupOf(m, date_string, 1)) THEN Missing
    ELSE IF DigitsToInt(GroupOf(m, date_string, 2), 0) \notin
                1..DaysInMonth(DigitsToInt(GroupOf(m, date_string, 3), 0),
                               CHOOSE k \in 1..12 :
                                   Upper(names[k]) = Upper(GroupOf(m, date_string, 1)))
            \/ DigitsToInt(GroupOf(m, date_string, 3), 0) = 0
    THEN Missing
    ELSE DateCell(DigitsToInt(GroupOf(m, date_string, 3), 0),
                  CHOOSE k \in 1..12 : Upper(names[k]) = Upper(GroupOf(m, date_string, 1)),
                  DigitsToInt(GroupOf(m, date_string, 2), 0))

\* datetime.strptime(date_string, "%B %d %Y") for the names of %B, and
\* "%b %d %Y" for the names of %b
strptime(date_string, names) == DateOfMatch(ReMatch(DateFormat, date_string), date_string, names)

\* the names of %b
abbreviations == [k \in 1..12 |-> SubSeq(months[k], 1, 3)]

\* the first try that raises no ValueError
FirstParsed(tries) ==
    IF \E i \in 1..Len(tries) : tries[i] # Missing
    THEN tries[Min({ i \in 1..Len(tries) : tries[i] # Missing })]
    ELSE Missing

_parse_date(date_str, year) ==
    IF date_str = Missing \/ date_str.text = "" THEN Missing
    ELSE FirstParsed(<<strptime(date_str.text, months),
                       strptime(date_str.text, abbreviations),
                       strptime(date_str.text \o " " \o ToString(year), abbreviations),
                       strptime(date_str.text \o " " \o ToString(year), months)>>)

\* 10^n
RECURSIVE Pow10(_)
Pow10(n) == IF n = 0 THEN 1 ELSE 10 * Pow10(n - 1)

\* round(n / d, 4) for d > 0, as a number of ten-thousandths: the nearest
\* one, the even one of two that are as near
Round4(n, d) ==
    LET q == (n * 10000) \div d
        r == (n * 10000) % d
    IN  IF 2 * r > d \/ (2 * r = d /\ q % 2 = 1) THEN q + 1 ELSE q

\* `if foreign_amount and foreign_amount != 0: return round(amount / foreign_amount, 4)`
calculate_exchange_rate(amount, foreign_amount) ==
    IF foreign_amount = Missing \/ foreign_amount.a = 0 THEN Missing
    ELSE IF foreign_amount.a > 0
    THEN NumCell(Round4(amount.a * Pow10(foreign_amount.b),
                        foreign_amount.a * Pow10(amount.b)), 4)
    ELSE NumCell(Round4((0 - amount.a) * Pow10(foreign_amount.b),
                        (0 - foreign_amount.a) * Pow10(amount.b)), 4)

\* the character of col.replace('_', ' ') at i
Spaced(col, i) == IF Char(col, i) = "_" THEN " " ELSE Char(col, i)

\* the character of col.replace('_', ' ').title() at i
TitleChar(col, i) ==
    IF i = 1 \/ Spaced(col, i - 1) \notin Letters THEN UpperChar(Spaced(col, i))
    ELSE LowerChar(Spaced(col, i))

RECURSIVE TitleFrom(_, _)
TitleFrom(col, i) == IF i > Len(col) THEN "" ELSE TitleChar(col, i) \o TitleFrom(col, i + 1)

\* col.replace('_', ' ').title()
Title(col) == TitleFrom(col, 1)

\* a DataFrame: the column names in order, and the rows in order, each with
\* its cells in the order of the columns (src, which is not data, is the
\* position the row had in the frame that was passed in)
DataFrame(columns, rows) == [columns |-> columns, rows |-> rows]

HasColumn(frame, col) == \E k \in 1..Len(frame.columns) : frame.columns[k] = col

\* df[col] of one row
Cell(frame, row, col) == row.cells[CHOOSE k \in 1..Len(frame.columns) : frame.columns[k] = col]

\* df[date_col] = df[date_col].apply(lambda x: self._parse_date(x, year_to_use))
ConvertDates(frame, year_to_use) ==
    DataFrame(frame.columns,
              [r \in 1..Len(frame.rows) |->
                  [frame.rows[r] EXCEPT !.cells =
                      [k \in 1..Len(frame.columns) |->
                          IF frame.columns[k] \in {"transaction_date", "post_date"}
                          THEN _parse_date(frame.rows[r].cells[k], year_to_use)
                          ELSE frame.rows[r].cells[k]]]])

\* df['exchange_rate'] = df.apply(...): the column is replaced where it is,
\* or added as the last one
SetColumn(frame, col, values) ==
    IF HasColumn(frame, col)
    THEN DataFrame(frame.columns,
                   [r \in 1..Len(frame.rows) |->
                       [frame.rows[r] EXCEPT !.cells =
                           [k \in 1..Len(frame.columns) |->
                               IF frame.columns[k] = col THEN values[r]
                               ELSE frame.rows[r].cells[k]]]])
    ELSE DataFrame(Append(frame.columns, col),
                   [r \in 1..Len(frame.rows) |->
                       [frame.rows[r] EXCEPT !.cells = Append(@, values[r])]])

AddExchangeRate(frame) ==
    IF HasColumn(frame, "amount") /\ HasColumn(frame, "foreign_amount")
    THEN SetColumn(frame, "exchange_rate",
                   [r \in 1..Len(frame.rows) |->
                       calculate_exchange_rate(Cell(frame, frame.rows[r], "amount"),
                                               Cell(frame, frame.rows[r], "foreign_amount"))])
    ELSE frame

\* the order of sort_values: datetimes ascending, NaT last
NotAfter(x, y) ==
    \/ y = Missing
    \/ x # Missing /\ x.a * 10000 + x.b * 100 + x.c <= y.a * 10000 + y.b * 100 + y.c

\* df.sort_values('transaction_date').reset_index(drop=True): the sort is
\* not a stable one, so rows of one date come out in any order
SortByDate(frame) ==
    IF HasColumn(frame, "transaction_date")
    THEN { DataFrame(frame.columns, [r \in 1..Len(frame.rows) |-> frame.rows[p[r]]]) :
             p \in { q \in [1..Len(frame.rows) -> 1..Len(frame.rows)] :
                       /\ \A i, j \in 1..Len(frame.rows) : i # j => q[i] # q[j]
                       /\ \A i, j \in 1..Len(frame.rows) : i < j =>
                              NotAfter(Cell(frame, frame.rows[q[i]], "transaction_date"),
                                       Cell(frame, frame.rows[q[j]], "transaction_date")) } }
    ELSE {frame}

\* df.columns = [col.replace('_', ' ').title() for col in df.columns]
Capitalize(frame) == DataFrame([k \in 1..Len(frame.columns) |-> Title(frame.columns[k])], frame.rows)

\* the frames clean_dataframe can return; this_year is datetime.now().year
clean_dataframe(frame, year, this_year) ==
    { Capitalize(sorted) :
        sorted \in SortByDate(AddExchangeRate(
                       ConvertDates(frame, IF Falsy(year) THEN this_year ELSE year[1]))) }
-----------------------------------------------------------------------------
(* config_loader.py: ConfigLoader *)

\* a dict: the value of key, or default
DictGet(d, key, default) == IF key \in DOMAIN d THEN d[key] ELSE default

\* the keys of updates are set in d
DictUpdate(d, updates) ==
    [k \in DOMAIN d \cup DOMAIN updates |-> IF k \in DOMAIN updates THEN updates[k] ELSE d[k]]

EmptyDict == [k \in {} |-> ""]

\* datetime.strptime(s, '%Y-%m-%d') raises ValueError
YmdFormat ==
    <<Capture(1, <<Rep(OneOf(Digits), 4, 4)>>)>> \o Lit("-")
    \o <<Capture(2, <<Rep(OneOf(Digits), 1, 2)>>)>> \o Lit("-")
    \o <<Capture(3, <<Rep(OneOf(Digits), 1, 2)>>), Eol>>

YmdRejected(m, s) ==
    \/ ~m.ok
    \/ DigitsToInt(GroupOf(m, s, 1), 0) = 0
    \/ DigitsToInt(GroupOf(m, s, 2), 0) \notin 1..12
    \/ DigitsToInt(GroupOf(m, s, 3), 0) \notin
           1..DaysInMonth(DigitsToInt(GroupOf(m, s, 1), 0), DigitsToInt(GroupOf(m, s, 2), 0))

ValueErrorYmd(s) == YmdRejected(ReMatch(YmdFormat, s), s)

\* os.environ.get(name, default)
Getenv(env, name, default) ==
    IF name \in DOMAIN env THEN Some(env[name]) ELSE default

\* _load_defaults: the dict it assigns to self.config
Defaults(env) ==
    [PDF_INPUT_FOLDER |-> Getenv(env, "BPI_PDF_FOLDER", Some("./data/input")),
     OUTPUT_FOLDER |-> Getenv(env, "BPI_OUTPUT_FOLDER", Some("./data/output")),
     ACCOUNTS_CSV_PATH |-> Getenv(env, "BPI_ACCOUNTS_CSV", None),
     DEFAULT_CUTOFF_DATE |-> Some("2024-01-01"),
     MAX_BATCH_SIZE |-> Some(50),
     CSV_DATE_FORMAT |-> Some("%Y-%m-%d"),
     SORT_BY_DATE |-> Some(TRUE),
     CARD_ACCOUNT_MAPPINGS |-> Some(
         [c \in {"BPI ECREDIT CARD", "BPI GOLD REWARDS CARD"} |->
             IF c = "BPI ECREDIT CARD"
             THEN "Liabilities:Credit Card:BPI Mastercard:e-credit"
             ELSE "Liabilities:Credit Card:BPI Mastercard:Gold"]),
     DEFAULT_CARD_ACCOUNT |-> Some("Liabilities:Credit Card:BPI Mastercard"),
     PRIMARY_CURRENCY |-> Some("PHP"),
     SUPPORTED_CURRENCIES |-> Some(<<"PHP", "USD", "SGD", "NZD", "EUR", "GBP", "JPY", "AUD", "CAD">>),
     INCLUDE_FOREIGN_AMOUNTS |-> Some(TRUE),
     CUSTOM_MERCHANT_MAPPINGS |-> Some(EmptyDict),
     KEYWORD_CATEGORIES |-> Some(EmptyDict),
     DEFAULT_CATEGORY |-> Some("Manual Review"),
     ENABLE_LOGGING |-> Some(TRUE),
     LOG_LEVEL |-> Some("INFO"),
     SKIP_FAILED_PDFS |-> Some(TRUE),
     SHOW_DETAILED_ERRORS |-> Some(FALSE)]

_load_defaults(self, env) == [self EXCEPT !.config = Defaults(env)]

\* `if v:` for a string or None
Truthy(v) == v # None /\ v[1] # ""

\* ConfigLoader.get: the environment variable BPI_<key> if it is set and not
\* empty, the loaded value otherwise
get(self, env, key, default) ==
    IF Truthy(Getenv(env, "BPI_" \o key, None)) THEN Getenv(env, "BPI_" \o key, None)
    ELSE DictGet(self.config, key, default)

\* `import config`: the module sys.modules holds under the name, and only
\* when it holds none the module of the file, which the import then leaves
\* in sys.modules
Import(modules, file) == IF modules # None THEN modules[1] ELSE file

\* sys.modules after `import config`: a module whose code raised is not kept
Imported(modules, file) ==
    IF modules # None THEN modules
    ELSE IF file.kind = "module" THEN Some(file) ELSE None

\* _load_config_file: the loader after it
_load_config_file(self, env, modules, file) ==
    IF Import(modules, file).kind = "module"
    THEN [self EXCEPT !.config = DictUpdate(@, Import(modules, file).names)]
    ELSE _load_defaults([self EXCEPT !.errors = Append(@, "Failed to load config.py: invalid syntax")],
                        env)

\* _load_transaction_rules
_load_transaction_rules(self, rules) ==
    IF rules = "valid" THEN [self EXCEPT !.transaction_rules = "rules"]
    ELSE [self EXCEPT !.errors = Append(@, "Failed to load transaction rules: Expecting value")]

\* the date check of _validate_config
ValidateDate(self, cutoff_date) ==
    IF Truthy(cutoff_date) /\ ValueErrorYmd(cutoff_date[1])
    THEN [self EXCEPT !.errors =
             Append(@, "Invalid DEFAULT_CUTOFF_DATE format: " \o cutoff_date[1])]
    ELSE self

\* the os.makedirs of _validate_config: makeable are the folders that
\* exist or can be made
MakeOutput(self, output_folder, makeable) ==
    IF Truthy(output_folder) /\ output_folder[1] \notin makeable
    THEN [self EXCEPT !.errors =
             Append(@, "Cannot create OUTPUT_FOLDER: Permission denied")]
    ELSE self

_validate_config(self, env, makeable) ==
    MakeOutput(ValidateDate(self, get(self, env, "DEFAULT_CUTOFF_DATE", None)),
               get(self, env, "OUTPUT_FOLDER", None), makeable)

\* ConfigLoader(config_dir)
ConfigLoader(config_dir) ==
    [config_dir |-> config_dir, config |-> EmptyDict, transaction_rules |-> "",
     is_loaded |-> FALSE, errors |-> <<>>]

\* load() up to the validation, for a directory that exists
LoadFiles(self, env, modules, dir) ==
    IF dir.rules = "absent"
    THEN (IF dir.config_py.kind # "absent"
          THEN _load_config_file(self, env, modules, dir.config_py)
          ELSE _load_defaults(self, env))
    ELSE _load_transaction_rules(
             IF dir.config_py.kind # "absent"
             THEN _load_config_file(self, env, modules, dir.config_py)
             ELSE _load_defaults(self, env),
             dir.rules)

Loaded(self) == [self EXCEPT !.is_loaded = Len(self.errors) = 0]

\* load(): the loader after the call; what it returns is is_loaded, or True
\* for a directory that does not exist
load(self, env, modules, dir, makeable) ==
    IF ~dir.exists THEN _load_defaults([self EXCEPT !.errors = <<>>], env)
    ELSE Loaded(_validate_config(LoadFiles([self EXCEPT !.errors = <<>>], env, modules, dir),
                                 env, makeable))

\* sys.modules after load()
ModulesAfter(modules, dir) ==
    IF dir.exists /\ dir.config_py.kind # "absent" THEN Imported(modules, dir.config_py)
    ELSE modules
-----------------------------------------------------------------------------
(* web_app.py: the handlers of the download and cleanup routes *)

\* str.isdigit(), for ASCII text
IsDigit(s) == Len(s) > 0 /\ \A i \in 1..Len(s) : Char(s, i) \in Digits

\* process_id.replace('_', '').isdigit()
ValidProcessIdOrEmpty(process_id) ==
    \A i \in 1..Len(process_id) : Char(process_id, i) \in Digits \cup {"_"}

ValidProcessId(process_id) == IsDigit(RemoveChar(process_id, "_"))

\* what a handler returns: the status and the JSON body (a key that is not
\* in the body is None), or the names of the files sent; touched, which is
\* not part of the response, holds the paths the handler read, archived or
\* deleted, each as <<process_id, file name>>
Response(status) ==
    [status |-> status, error |-> None, success |-> None, message |-> None,
     sent |-> {}, touched |-> {}, process_id |-> None, has_review_data |-> None,
     transactions |-> None, parsed |-> 0]

Jsonify(status, key, value) == [Response(status) EXCEPT ![key] = Some(value)]

InvalidProcessId == Jsonify(400, "error", "Invalid process ID")

\* the files of the folder of process_id under UPLOAD_FOLDER, none when the
\* folder does not exist
FilesOf(fs, process_id) == IF process_id \in DOMAIN fs THEN fs[process_id] ELSE {}

\* os.path.abspath(file_path).startswith(os.path.abspath(UPLOAD_FOLDER)), for
\* a file name the route can bind: one with no '/' in it
InUploadFolder(process_id, filename) == ~Contains(filename, "/")

\* download_file(process_id, filename) on the file system fs
download_file(fs, process_id, filename) ==
    IF ~ValidProcessId(process_id) THEN InvalidProcessId
    ELSE IF ~InUploadFolder(process_id, filename)
    THEN Jsonify(403, "error", "Invalid file path")
    ELSE IF filename \in FilesOf(fs, process_id)
    THEN [Response(200) EXCEPT !.sent = {filename}, !.touched = {<<process_id, filename>>}]
    ELSE Jsonify(404, "error", "File not found")

\* file.endswith('.csv')
IsCsv(file) == Len(file) >= 4 /\ SubSeq(file, Len(file) - 3, Len(file)) = ".csv"

\* download_all(process_id)
download_all(fs, process_id) ==
    IF ~ValidProcessId(process_id) THEN InvalidProcessId
    ELSE [Response(200) EXCEPT
              !.sent = { f \in FilesOf(fs, process_id) : IsCsv(f) },
              !.touched = { <<process_id, f>> : f \in { g \in FilesOf(fs, process_id) : IsCsv(g) } }]

\* UPLOAD_FOLDER after shutil.rmtree(process_folder)
Rmtree(fs, process_id) == [p \in DOMAIN fs \ {process_id} |-> fs[p]]

\* cleanup_process(process_id): the response
cleanup_process(fs, process_id) ==
    IF ~ValidProcessId(process_id) THEN InvalidProcessId
    ELSE IF process_id \in DOMAIN fs
    THEN [Jsonify(200, "message", "Files cleaned up") EXCEPT
              !.success = Some(TRUE),
              !.touched = {<<process_id, "">>} \cup { <<process_id, f>> : f \in fs[process_id] }]
    ELSE [Jsonify(404, "message", "Process folder not found") EXCEPT !.success = Some(FALSE)]

\* and UPLOAD_FOLDER after it
CleanedUp(fs, process_id) ==
    IF ValidProcessId(process_id) /\ process_id \in DOMAIN fs THEN Rmtree(fs, process_id)
    ELSE fs

-----------------------------------------------------------------------------
(* web_app.py: upload_and_process and get_review_data *)

\* the place of the first sub in s, 0 when there is none
Find(s, sub) ==
    IF Contains(s, sub)
    THEN Min({ i \in 1..(Len(s) - Len(sub) + 1) : SubSeq(s, i, i + Len(sub) - 1) = sub })
    ELSE 0

\* filename.rsplit('.', 1)[1], for a name with a '.' in it
Extension(filename) ==
    SubSeq(filename, Max({ i \in 1..Len(filename) : Char(filename, i) = "." }) + 1,
           Len(filename))

ALLOWED_EXTENSIONS == {"pdf"}

allowed_file(filename) ==
    Contains(filename, ".") /\ Lower(Extension(filename)) \in ALLOWED_EXTENSIONS

\* werkzeug's secure_filename, for ASCII names without a path separator:
\* white space becomes '_', what is not of [A-Za-z0-9_.-] is dropped, and
\* '.' and '_' are stripped from both ends
RECURSIVE SecureFrom(_, _)
SecureFrom(s, i) ==
    IF i > Len(s) THEN ""
    ELSE (IF Char(s, i) \in Spaces THEN "_"
          ELSE IF Char(s, i) \in WordChars \cup {".", "-"} THEN Char(s, i)
          ELSE "") \o SecureFrom(s, i + 1)

secure_filename(filename) ==
    Between(SecureFrom(filename, 1),
            { i \in 1..Len(SecureFrom(filename, 1)) :
                  Char(SecureFrom(filename, 1), i) \notin {".", "_"} })

\* validate_pdf: the first four bytes of the file
validate_pdf(file) == file.header = "%PDF"

\* ([A-Z]+)\s*(\d{1,2}),\s*(\d{4})
StatementDatePattern ==
    <<Capture(1, <<Plus(OneOf(UpperSet))>>), Star(OneOf(Spaces)),
      Capture(2, <<Rep(OneOf(Digits), 1, 2)>>)>> \o Lit(",")
    \o <<Star(OneOf(Spaces)), Capture(3, <<Rep(OneOf(Digits), 4, 4)>>)>>

\* line.upper().split('STATEMENT DATE')[1].strip()
DatePart(upper) ==
    LET rest == SubSeq(upper, Find(upper, "STATEMENT DATE") + 14, Len(upper))
    IN  Strip(IF Contains(rest, "STATEMENT DATE")
              THEN SubSeq(rest, 1, Find(rest, "STATEMENT DATE") - 1)
              ELSE rest)

\* two digits of n
TwoDigits(n) == IF n < 10 THEN "0" \o ToString(n) ELSE ToString(n)

\* the statement date and year of a match of the pattern in date_part, none
\* for no match and for a month name strptime(month_name, '%B') refuses
DateOfStatement(m, date_part) ==
    IF ~m.ok THEN None
    ELSE IF \A k \in 1..12 : Upper(months[k]) # GroupOf(m, date_part, 1) THEN None
    ELSE Some([statement_date |->
                   GroupOf(m, date_part, 3) \o "-"
                   \o TwoDigits(CHOOSE k \in 1..12 : Upper(months[k]) = GroupOf(m, date_part, 1))
                   \o "-" \o TwoDigits(DigitsToInt(GroupOf(m, date_part, 2), 0)),
               statement_year |-> DigitsToInt(GroupOf(m, date_part, 3), 0)])

\* the loop over the lines of the text: the first line that gives a date
RECURSIVE StatementDate(_, _)
StatementDate(lines, i) ==
    IF i > Len(lines) THEN None
    ELSE IF Contains(Upper(lines[i]), "STATEMENT DATE")
            /\ DateOfStatement(ReMatch(StatementDatePattern, DatePart(Upper(lines[i]))),
                               DatePart(Upper(lines[i]))) # None
    THEN DateOfStatement(ReMatch(StatementDatePattern, DatePart(Upper(lines[i]))),
                         DatePart(Upper(lines[i])))
    ELSE StatementDate(lines, i + 1)

\* the result of process_single_pdf for what went wrong inside it
Failed(filename) ==
    [success |-> FALSE, filename |-> filename, transactions |-> <<>>, statement_date |-> None]

\* the result for the transactions parsed with the date found
Processed(filename, found, parsed) ==
    IF parsed.raised # "none" THEN Failed(filename)
    ELSE IF found = None
    THEN [success |-> TRUE, filename |-> filename, transactions |-> parsed.result,
          statement_date |-> None]
    ELSE [success |-> TRUE, filename |-> filename,
          transactions |-> [k \in 1..Len(parsed.result) |->
                               parsed.result[k]
                               @@ ("Statement Date" :> found[1].statement_date)],
          statement_date |-> Some(found[1].statement_date)]

\* process_single_pdf from the date found on
ProcessText(file, filename, found) ==
    Processed(filename, found,
              parse_transactions(file.text,
                  IF found = None THEN None ELSE Some(found[1].statement_year)))

\* process_single_pdf(filepath, filename): a file PDFExtractor cannot read
\* and a text the parser raises on end in the `except Exception`
process_single_pdf(file, filename) ==
    IF ~file.readable THEN Failed(filename)
    ELSE ProcessText(file, filename, StatementDate(file.text, 1))

\* the methods class AccountMapper defines
AccountMapperMethods ==
    {"__init__", "_load_accounts", "map_description_to_account",
     "get_mapping_confidence", "batch_map_descriptions", "get_mapping_summary"}

\* the locals of upload_and_process before the loop over the files
NoFiles == [results |-> <<>>, all_transactions |-> <<>>, statement_dates |-> <<>>,
            errors |-> <<>>, saved |-> {}]

\* the state of the loop after the result r of process_single_pdf
WithResult(st, filename, r) ==
    [st EXCEPT !.saved = @ \cup {filename},
               !.results = Append(@, r),
               !.all_transactions =
                   IF r.success /\ r.transactions # <<>> THEN @ \o r.transactions ELSE @,
               !.statement_dates =
                   IF r.success /\ r.transactions # <<>> /\ r.statement_date # None
                   THEN Append(@, r.statement_date[1]) ELSE @]

\* one file whose name is allowed, after file.save: so is the state of the
\* loop. processed holds, for each file, what process_single_pdf(filepath,
\* filename) returns for it
FileStep(st, file, filename, processed) ==
    IF ~validate_pdf(file)
    THEN [st EXCEPT !.saved = @ \cup {filename},
                    !.errors = Append(@, [file |-> filename, error |-> "Invalid PDF file"])]
    ELSE WithResult(st, filename, processed[file])

\* for file in files
RECURSIVE FilesFrom(_, _, _, _)
FilesFrom(files, i, st, processed) ==
    IF i > Len(files) THEN st
    ELSE IF files[i].filename # "" /\ allowed_file(files[i].filename)
    THEN FilesFrom(files, i + 1,
                   FileStep(st, files[i], secure_filename(files[i].filename), processed),
                   processed)
    ELSE FilesFrom(files, i + 1, st, processed)

\* the number of results with success
Successes(results) == Cardinality({ k \in 1..Len(results) : results[k].success })

\* what upload_and_process gives once the loop is over: the response, the
\* review sessions and the files of the process folder. parsed, which is not
\* part of the response, is the number of transactions of the loop
Uploaded(st, process_id, sessions, methods) ==
    IF st.all_transactions # <<>> /\ "get_mapping_with_metadata" \notin methods
    THEN [response |-> [Jsonify(500, "error",
                                "Processing failed: 'AccountMapper' object has no attribute 'get_mapping_with_metadata'")
                        EXCEPT !.parsed = Len(st.all_transactions)],
          review_sessions |-> sessions,
          files |-> st.saved]
    ELSE IF st.all_transactions # <<>>
    THEN [response |-> [Response(200) EXCEPT
                            !.success = Some(TRUE), !.process_id = Some(process_id),
                            !.has_review_data = Some(TRUE),
                            !.parsed = Len(st.all_transactions)],
          review_sessions |->
              [p \in DOMAIN sessions \cup {process_id} |->
                  IF p = process_id
                  THEN [transactions |-> [k \in 1..Len(st.all_transactions) |->
                                             st.all_transactions[k].description],
                        statement_dates |-> st.statement_dates]
                  ELSE sessions[p]],
          files |-> st.saved \cup
                    {(IF st.statement_dates # <<>> THEN st.statement_dates[1] ELSE "today")
                     \o "_Statement_BPI_Mastercard_Batch.csv"}]
    ELSE [response |-> [Response(200) EXCEPT
                            !.success = Some(Successes(st.results) > 0 \/ st.errors = <<>>),
                            !.process_id = Some(process_id),
                            !.has_review_data = Some(FALSE)],
          review_sessions |-> sessions,
          files |-> st.saved]

\* the checks of upload_and_process before it takes a process id: a request
\* is the list of its 'files' parts, None without such a part
Refused(request_files) ==
    IF request_files = None THEN Jsonify(400, "error", "No files provided")
    ELSE IF request_files[1] = <<>> \/ request_files[1][1].filename = ""
    THEN Jsonify(400, "error", "No files selected")
    ELSE Response(0)

\* datetime.now().strftime('%Y%m%d_%H%M%S') at the second `second` of the clock
Strftime(second) == "20240101_1200" \o TwoDigits(second)

\* upload_and_process after the loop, or stopped in it: file.save fails when
\* the process folder is gone, and the failure ends in the outer
\* `except Exception`
UploadedIn(fs, st, process_id, sessions, methods) ==
    IF process_id \notin DOMAIN fs /\ st.saved # {}
    THEN [response |-> Jsonify(500, "error", "Processing failed: [Errno 2] No such file or directory"),
          review_sessions |-> sessions, files |-> {}]
    ELSE Uploaded(st, process_id, sessions, methods)

\* upload_and_process from the loop on
upload_and_process(fs, sessions, process_id, files, methods, processed) ==
    CHOOSE out \in { UploadedIn(fs, st, process_id, sessions, methods) :
                        st \in {FilesFrom(files, 1, NoFiles, processed)} } : TRUE

\* get_review_data(process_id)
get_review_data(sessions, process_id) ==
    IF process_id \notin DOMAIN sessions THEN Jsonify(404, "error", "Review data not found")
    ELSE [Response(200) EXCEPT !.success = Some(TRUE),
                               !.transactions = Some(sessions[process_id].transactions)]

-----------------------------------------------------------------------------
(* _parse_card_section, one pass of its while loop at a time.  i counts    *)
(* from 0 as in the source: lines[i] of the source is lines[i + 1] here.    *)

\* i += 1
AfterOne(i) == i + 1

\* a loop that steps over the first line only of a two-line record
AfterTwoByOne(i) == i + 1

\* i += 2
AfterTwo(i) == i + 2

\* what one pass of the loop body leaves: the branch taken, the new value
\* of i, the record appended (if any) and the lines it was read from
Pass(branch, i, tx, used) == [branch |-> branch, i |-> i, tx |-> tx, used |-> used]

\* two is what _parse_two_lines made of lines i and i + 1
LoopTwo(i, two) ==
    IF two.raised THEN Pass("raise", i, None, {})
    ELSE IF two.ok THEN Pass("two", AfterTwo(i), Some(two.tx), {i, i + 1})
    ELSE Pass("miss", AfterOne(i), None, {})

\* single is what _parse_single_line made of norm_line
LoopSingle(lines, i, card_name, year, norm_line, single) ==
    IF single.raised THEN Pass("raise", i, None, {})
    ELSE IF single.ok THEN Pass("single", AfterOne(i), Some(single.tx), {i})
    ELSE IF i + 1 < Len(lines)
    THEN LoopTwo(i, _parse_two_lines(norm_line, normalize_line(Strip(lines[i + 2])),
                                     card_name, year))
    ELSE Pass("miss", AfterOne(i), None, {})

\* l is lines[i].strip(), normalized and matched against the transaction
\* patterns
LoopMatch(lines, i, card_name, year, l) ==
    LoopSingle(lines, i, card_name, year, normalize_line(l),
               _parse_single_line(normalize_line(l), card_name, year))

\* a loop body that tries the transaction patterns before the skip patterns
LoopLineMatchFirst(lines, i, card_name, year, l) ==
    IF l = "" THEN Pass("skip", AfterOne(i), None, {})
    ELSE IF LoopMatch(lines, i, card_name, year, l).branch \in {"single", "two", "raise"}
    THEN LoopMatch(lines, i, card_name, year, l)
    ELSE IF _should_skip(l) THEN Pass("skip", AfterOne(i), None, {})
    ELSE LoopMatch(lines, i, card_name, year, l)

\* l is lines[i].strip()
LoopLine(lines, i, card_name, year, l) ==
    IF l = "" \/ _should_skip(l) THEN Pass("skip", AfterOne(i), None, {})
    ELSE LoopMatch(lines, i, card_name, year, l)

\* the body of `while i < len(lines)`
LoopBody(lines, i, card_name, year) ==
    LoopLine(lines, i, card_name, year, Strip(lines[i + 1]))

-----------------------------------------------------------------------------
(* BatchStatementProcessor *)

\* `page_text and page_text.strip()`: the page has text that is not blank
HasText(page) == \E k \in 1..Len(page) : Strip(page[k]) # ""

\* PDFExtractor.extract_text reading the pages from page_num (from 1) on:
\* text += f"\n=== PAGE {page_num + 1} ===\n"; text += page_text + "\n",
\* as the lines of text
RECURSIVE ExtractFrom(_, _, _)
ExtractFrom(pages, page_num, lines) ==
    IF page_num > Len(pages) THEN lines
    ELSE ExtractFrom(pages, page_num + 1,
                     IF HasText(pages[page_num])
                     THEN lines \o <<"=== PAGE " \o ToString(page_num) \o " ===">>
                          \o pages[page_num] \o <<"">>
                     ELSE lines)

\* PDFExtractor.extract_text of the file under file_path: it raises what
\* open() or PyPDF2 raised
extract_text(fs, file_path) ==
    IF ~fs[file_path].readable
    THEN [raised |-> TRUE, error |-> "[Errno 2] No such file or directory", text |-> <<>>]
    ELSE [raised |-> FALSE, error |-> "", text |-> ExtractFrom(fs[file_path].pages, 1, <<"">>)]

\* transaction['statement_date'] = statement_date, for each transaction
WithStatementDate(transactions, statement_date) ==
    [k \in 1..Len(transactions) |-> transactions[k] @@ ("statement_date" :> statement_date)]

\* {**file_info, 'error': error_msg}
WithError(file_info, error_msg) == file_info @@ ("error" :> error_msg)

\* the tracking lists of a processor
Tracking(processed, failed, transactions) ==
    [processed_files |-> processed, failed_files |-> failed, all_transactions |-> transactions]

\* a loop body that records the file as processed whatever the parser found
RecordedAlways(self, file_info, transactions) ==
    Tracking(Append(self.processed_files, file_info),
             IF transactions # <<>> THEN self.failed_files
             ELSE Append(self.failed_files, WithError(file_info, "No transactions found")),
             self.all_transactions
                 \o WithStatementDate(transactions, file_info.statement_date))

\* `if transactions: ... else: ...` of the loop body
Recorded(self, file_info, transactions) ==
    IF transactions # <<>>
    THEN Tracking(Append(self.processed_files, file_info), self.failed_files,
                  self.all_transactions
                      \o WithStatementDate(transactions, file_info.statement_date))
    ELSE Tracking(self.processed_files,
                  Append(self.failed_files, WithError(file_info, "No transactions found")),
                  self.all_transactions)

\* `except Exception as e:` of the loop body
Excepted(self, file_info, error_msg) ==
    Tracking(self.processed_files,
             Append(self.failed_files, WithError(file_info, error_msg)),
             self.all_transactions)

\* what the calls of the try block gave: the transactions, or the exception
Tried(raised_, error_msg, transactions) ==
    [raised |-> raised_, error |-> error_msg, transactions |-> transactions]

\* parsed is what parse_transactions(text, statement_year) did; str(e) of
\* the ValueError of float() begins as below
TriedParse(parsed) ==
    IF parsed.raised # "none" THEN Tried(TRUE, "could not convert string to float", <<>>)
    ELSE Tried(FALSE, "", parsed.result)

\* extracted is what extract_text() did; statement_year = statement_date.year
TriedExtract(file_info, extracted) ==
    IF extracted.raised THEN Tried(TRUE, extracted.error, <<>>)
    ELSE TriedParse(parse_transactions(extracted.text, Some(file_info.statement_date[1])))

\* the calls of the try block for file_info
TryFile(fs, file_info) == TriedExtract(file_info, extract_text(fs, file_info.full_path))

\* the body of `for i, file_info in enumerate(pdf_files, 1)`, tried being
\* what the calls of its try block gave
ProcessFile(self, file_info, tried) ==
    IF tried.raised THEN Excepted(self, file_info, tried.error)
    ELSE Recorded(self, file_info, tried.transactions)

\* BatchStatementProcessor.__init__: the tracking lists
BatchStatementProcessor == Tracking(<<>>, <<>>, <<>>)
-----------------------------------------------------------------------------
(* Inputs *)

MaxNormTokens == 4

MaxParseLines == 3

MaxLines == 4

MaxDedupLen == 4

\* pieces of extracted text that the rewrites of normalize_line act on
NormTokens == {"1", "May", ".00", " ", " , ", "US Dollar"}

RECURSIVE Concats(_, _)
Concats(tokens, n) ==
    IF n = 0 THEN {""}
    ELSE Concats(tokens, n - 1) \cup { a \o b : a \in Concats(tokens, n - 1), b \in tokens }

\* the sequences of 1..n elements of pool
Texts(pool, n) == UNION { [1..k -> pool] : k \in 1..n }

\* statement lines without a card header: single-line transactions, the two
\* lines of a foreign-currency transaction, a currency line that is malformed
ParsePool ==
    {"May 1 May 2 Ab 5.00", "December 31 January 2 Cd -7.50",
     "May 3 May 4 Ef US", "May 3 May 4 Ef JP",
     "U.S.Dollar 1.50 80.00", "U.S.Dollar 1.2.3 80.00"}

\* card headers in several spellings, one naming both cards, and a transaction
SplitPool ==
    {"Gold  Rewards", "BPI E-CREDIT CARD", "BPI ECREDIT GOLD REWARDS",
     "May 1 May 2 Ab 5.00"}

\* two card headers and two transactions
ScanPool ==
    {"GOLD REWARDS", "E-CREDIT CARD", "May 1 May 2 Ab 5.00", "May1 May 2 Cd 7.00"}

Record(card, text_of) ==
    [card |-> card, transaction_date |-> "May 1 2025", post_date |-> "May 2 2025",
     description |-> text_of, amount |-> <<5, 0>>, currency |-> "PHP",
     foreign_amount |-> None]

\* two records with one identity key, and a third one
DedupPool ==
    {Record("BPI GOLD REWARDS CARD", "Ab"), Record("BPI ECREDIT CARD", "Ab"),
     Record("BPI GOLD REWARDS CARD", "Cd")}

Years == {2025}

-----------------------------------------------------------------------------
(* The calls *)

\* no parser call is under way
ParserIdle ==
    /\ line = "" /\ norm1 = "" /\ norm2 = ""
    /\ text = <<>> /\ statement_year = <<>> /\ statement_month = <<>>
    /\ sections = <<>> /\ scanned = <<>> /\ result = <<>> /\ raised = "none"
    /\ T = <<>> /\ dedup1 = <<>> /\ dedup2 = <<>>

\* no mapper instance is in use
InstanceIdle ==
    /\ mapper = <<>> /\ calls = 0
    /\ descriptions = <<>> /\ mapped_accounts = <<>> /\ summary = <<>>

\* no CurrencyHandler call is under way
HandlerIdle == df = <<>> /\ now = 0 /\ df_clean = <<>>

\* no ConfigLoader is in use
ConfigIdle ==
    /\ disk = <<>> /\ environ = <<>> /\ creatable = {} /\ sys_modules = <<>>
    /\ loader = <<>> /\ returned = <<>> /\ loads = 0

\* no web application is running
WebIdle ==
    /\ clock = 0 /\ folders = <<>> /\ review_sessions = <<>> /\ inflight = <<>>
    /\ issued = <<>> /\ request = <<>> /\ response = <<>>

\* no section is being scanned
ScanIdle ==
    /\ scan_lines = <<>> /\ scan_i = 0 /\ scan_transactions = <<>>
    /\ scan_starts = <<>> /\ scan_used = <<>>

\* no batch is being processed
BatchIdle ==
    /\ pdf_files = <<>> /\ batch_i = 0 /\ processed_files = <<>>
    /\ failed_files = <<>> /\ all_transactions = <<>>

LoopIdle == ScanIdle /\ BatchIdle

LaterIdle == HandlerIdle /\ ConfigIdle /\ WebIdle /\ LoopIdle

OthersIdle == InstanceIdle /\ LaterIdle

\* no AccountMapper call is under way
MapperIdle ==
    /\ FUZZY_AVAILABLE = FALSE /\ expense_accounts = <<>> /\ description = None
    /\ scores = [known |-> <<>>, keyword |-> <<>>, general |-> <<>>]
    /\ account = "" /\ confidence = <<>>

InitNorm ==
    /\ pc = "normalize"
    /\ line \in Concats(NormTokens, MaxNormTokens)
    /\ norm1 = "" /\ norm2 = ""
    /\ text = <<>> /\ statement_year = None /\ statement_month = None
    /\ sections = <<>> /\ scanned = <<>> /\ result = <<>> /\ raised = "none"
    /\ T = <<>> /\ dedup1 = <<>> /\ dedup2 = <<>>
    /\ MapperIdle /\ OthersIdle

\* normalize_line(line)
NormalizeOnce ==
    /\ pc = "normalize"
    /\ norm1' = normalize_line(line)
    /\ pc' = "normalized"
    /\ UNCHANGED <<line, norm2, text, statement_year, statement_month,
                   sections, scanned, result, raised, T, dedup1, dedup2>>
    /\ UNCHANGED <<mapper_vars, other_vars>>

\* normalize_line on the line it returned
NormalizeAgain ==
    /\ pc = "normalized"
    /\ norm2' = normalize_line(norm1)
    /\ pc' = "renormalized"
    /\ UNCHANGED <<line, norm1, text, statement_year, statement_month,
                   sections, scanned, result, raised, T, dedup1, dedup2>>
    /\ UNCHANGED <<mapper_vars, other_vars>>

NextNorm == NormalizeOnce \/ NormalizeAgain

SpecNorm == InitNorm /\ [][NextNorm]_vars

\* a statement of the given month, about to be parsed
InitText(texts, statement_months) ==
    /\ pc = "parse"
    /\ text \in texts
    /\ statement_year \in { Some(y) : y \in Years }
    /\ statement_month \in { Some(m) : m \in statement_months }
    /\ line = "" /\ norm1 = "" /\ norm2 = ""
    /\ sections = <<>> /\ scanned = <<>> /\ result = <<>> /\ raised = "none"
    /\ T = <<>> /\ dedup1 = <<>> /\ dedup2 = <<>>
    /\ MapperIdle /\ OthersIdle

\* parse_transactions(text, statement_year): it returns, or lets ValueError out
Parse ==
    /\ pc = "parse"
    /\ \E r \in {parse_transactions(text, statement_year)} :
           /\ sections' = r.sections
           /\ scanned' = r.scanned
           /\ result' = r.result
           /\ raised' = r.raised
           /\ pc' = IF r.raised = "none" THEN "returned" ELSE "raised"
    /\ UNCHANGED <<line, norm1, norm2, text, statement_year, statement_month,
                   T, dedup1, dedup2>>
    /\ UNCHANGED <<mapper_vars, other_vars>>

\* statements without card headers, of a January and of a June
InitParse == InitText(Texts(ParsePool, MaxParseLines), {1, 6})

SpecParse == InitParse /\ [][Parse]_vars

\* statements with card headers
InitSplit == InitText(Texts(SplitPool, MaxLines), {6})

SpecSplit == InitSplit /\ [][Parse]_vars

\* statements with two cards and two transactions
InitScan == InitText(Texts(ScanPool, MaxLines), {6})

SpecScan == InitScan /\ [][Parse]_vars

InitDedup ==
    /\ pc = "dedup"
    /\ T \in Texts(DedupPool, MaxDedupLen)
    /\ dedup1 = <<>> /\ dedup2 = <<>>
    /\ MapperIdle /\ OthersIdle
    /\ line = "" /\ norm1 = "" /\ norm2 = ""
    /\ text = <<>> /\ statement_year = None /\ statement_month = None
    /\ sections = <<>> /\ scanned = <<>> /\ result = <<>> /\ raised = "none"

\* _remove_duplicates(T)
DedupOnce ==
    /\ pc = "dedup"
    /\ dedup1' = _remove_duplicates(T)
    /\ pc' = "deduped"
    /\ UNCHANGED <<line, norm1, norm2, text, statement_year, statement_month,
                   sections, scanned, result, raised, T, dedup2>>
    /\ UNCHANGED <<mapper_vars, other_vars>>

\* _remove_duplicates on the list it returned
DedupAgain ==
    /\ pc = "deduped"
    /\ dedup2' = _remove_duplicates(dedup1)
    /\ pc' = "rededuped"
    /\ UNCHANGED <<line, norm1, norm2, text, statement_year, statement_month,
                   sections, scanned, result, raised, T, dedup1>>
    /\ UNCHANGED <<mapper_vars, other_vars>>

NextDedup == DedupOnce \/ DedupAgain

SpecDedup == InitDedup /\ [][NextDedup]_vars

\* statement lines that have the shape of a transaction: amounts with and
\* without thousands separators, a date of December, a foreign transaction
\* with its currency line, and tokens in the place of a month and of a day
\* that are none
LinePool ==
    {"May 1 May 2 Ab 5.00", "May 1 May 2 Ab 1234.56", "December 31 January 2 Cd -7.50",
     "May 3 May 4 Ef SG", "Singapore Dollar 1.50 80.00", "Foo 1 May 99 Gh 5.00"}

\* statements of a January, parsed with and without the statement year
InitLines ==
    /\ pc = "parse"
    /\ text \in Texts(LinePool, MaxParseLines)
    /\ statement_year \in {None} \cup { Some(y) : y \in Years }
    /\ statement_month = Some(1)
    /\ line = "" /\ norm1 = "" /\ norm2 = ""
    /\ sections = <<>> /\ scanned = <<>> /\ result = <<>> /\ raised = "none"
    /\ T = <<>> /\ dedup1 = <<>> /\ dedup2 = <<>>
    /\ MapperIdle /\ OthersIdle

SpecLines == InitLines /\ [][Parse]_vars



-----------------------------------------------------------------------------
(* Calls of AccountMapper *)

MaxAccounts == 2

\* descriptions with a known pattern, with two of them, with keywords, with
\* words of the fallback, with none of these, the empty and the missing one
DescriptionPool ==
    {None} \cup
    { Some(d) : d \in {"", "GOOGLE *YOUTUBEPREMIUM 650", "Dj*wsj 7",
                       "Payment -Thank You Netflix.Com", "Netflx",
                       "Grab Food Panda", "Paypal Abc", "Big Mall",
                       "Lazada Ph", "Xyz"} }

\* FUZZY_AVAILABLE as the import left it; self.expense_accounts after
\* __init__: nothing loaded, or a list from the CSV; the scores fuzzywuzzy may
\* give in the call, around the three thresholds: against the known patterns
\* two keys of different accounts score 79, 80 or 100 and the rest 0
InitMap ==
    /\ pc = "map"
    /\ FUZZY_AVAILABLE \in BOOLEAN
    /\ expense_accounts \in
           { SubSeq(<<"Expenses:Food:Dining", "Expenses:Professional Fees",
                      "Expenses:Household Supplies">>, 1, n) : n \in 0..MaxAccounts }
    /\ description \in DescriptionPool
    /\ scores \in
           [known : { [k \in 1..Len(known_mappings) |->
                          IF k = 2 THEN a ELSE IF k = 10 THEN b ELSE 0] :
                      a \in {79, 80, 100}, b \in {79, 80, 100} },
            keyword : [1..Len(expense_accounts) -> {69, 70}],
            general : [1..Len(expense_accounts) -> {59, 60}]]
    /\ account = "" /\ confidence = <<>>
    /\ ParserIdle /\ OthersIdle

\* mapper.map_description_to_account(description)
MapDescription ==
    /\ pc = "map"
    /\ \E r \in {map_description_to_account(description, FUZZY_AVAILABLE,
                                            expense_accounts, scores)} :
           /\ account' = r.account
           /\ raised' = r.raised
           /\ pc' = IF r.raised = "none" THEN "mapped" ELSE "raised"
    /\ UNCHANGED <<FUZZY_AVAILABLE, expense_accounts, description, scores, confidence>>
    /\ UNCHANGED <<parser_vars, other_vars>>

\* mapper.get_mapping_confidence(description)
GetConfidence ==
    /\ pc = "mapped"
    /\ \E r \in {get_mapping_confidence(description, FUZZY_AVAILABLE,
                                        expense_accounts, scores)} :
           /\ confidence' = <<r.account, r.score>>
           /\ raised' = r.raised
           /\ pc' = IF r.raised = "none" THEN "rated" ELSE "raised"
    /\ UNCHANGED <<FUZZY_AVAILABLE, expense_accounts, description, scores, account>>
    /\ UNCHANGED <<parser_vars, other_vars>>

SpecMap == InitMap /\ [][MapDescription \/ GetConfidence]_vars

-----------------------------------------------------------------------------
(* Calls, one after the other, of one AccountMapper *)

MaxCalls == 3

MaxBatch == 2

\* the account names of the CSV: none, or names with and without 'Expenses:'
LoadedLists == {<<>>, <<"Assets:Cash", "Expenses:Food:Dining">>}

CallPool == { Some(d) : d \in {"Netflx", "Grab Food Panda"} }

\* a mapper as constructed; fuzzywuzzy scores the descriptions of the pool
\* alike: the second known pattern at, or below, the threshold
InitCalls ==
    /\ pc = "constructed"
    /\ FUZZY_AVAILABLE \in BOOLEAN
    /\ mapper \in { AccountMapper(loaded) : loaded \in LoadedLists }
    /\ expense_accounts = mapper.expense_accounts
    /\ scores \in
           [known : { [k \in 1..Len(known_mappings) |-> IF k = 2 THEN a ELSE 0] :
                      a \in {79, 80} },
            keyword : [1..Len(expense_accounts) -> {69, 70}],
            general : [1..Len(expense_accounts) -> {60}]]
    /\ calls = 0
    /\ description = None /\ account = "" /\ confidence = <<>>
    /\ descriptions = <<>> /\ mapped_accounts = <<>> /\ summary = <<>>
    /\ ParserIdle /\ LaterIdle

\* the arguments and results of the calls before are gone
Forgotten(kept) ==
    /\ "description" \in kept \/ description' = None
    /\ "account" \in kept \/ account' = ""
    /\ "confidence" \in kept \/ confidence' = <<>>
    /\ "descriptions" \in kept \/ descriptions' = <<>>
    /\ "mapped_accounts" \in kept \/ mapped_accounts' = <<>>
    /\ "summary" \in kept \/ summary' = <<>>

\* mapper.map_description_to_account(d)
CallMap ==
    /\ pc # "raised" /\ calls < MaxCalls
    /\ \E d \in CallPool :
       \E r \in {map_description_to_account(d, FUZZY_AVAILABLE,
                                            mapper.expense_accounts, scores)} :
           /\ description' = d
           /\ account' = r.account
           /\ raised' = r.raised
           /\ mapper' = Classified(mapper, d, r.account)
           /\ pc' = IF r.raised = "none" THEN "mapped" ELSE "raised"
    /\ calls' = calls + 1
    /\ Forgotten({"description", "account"})
    /\ UNCHANGED <<FUZZY_AVAILABLE, expense_accounts, scores, parser_vars, later_vars>>

\* mapper.get_mapping_confidence(d)
CallConfidence ==
    /\ pc # "raised" /\ calls < MaxCalls
    /\ \E d \in CallPool :
       \E r \in {get_mapping_confidence(d, FUZZY_AVAILABLE,
                                        mapper.expense_accounts, scores)} :
           /\ description' = d
           /\ confidence' = <<r.account, r.score>>
           /\ raised' = r.raised
           /\ mapper' = Classified(mapper, d, r.account)
           /\ pc' = IF r.raised = "none" THEN "rated" ELSE "raised"
    /\ calls' = calls + 1
    /\ Forgotten({"description", "confidence"})
    /\ UNCHANGED <<FUZZY_AVAILABLE, expense_accounts, scores, parser_vars, later_vars>>

\* mapper.batch_map_descriptions(ds)
CallBatch ==
    /\ pc # "raised" /\ calls < MaxCalls
    /\ \E ds \in {<<>>} \cup Texts(CallPool, MaxBatch) :
       \E r \in {batch_map_descriptions(ds, FUZZY_AVAILABLE,
                                        mapper.expense_accounts, scores)} :
           /\ descriptions' = ds
           /\ mapped_accounts' = r.accounts
           /\ raised' = r.raised
           /\ mapper' = Classified(mapper, ds, r.accounts)
           /\ pc' = IF r.raised = "none" THEN "batched" ELSE "raised"
    /\ calls' = calls + 1
    /\ Forgotten({"descriptions", "mapped_accounts"})
    /\ UNCHANGED <<FUZZY_AVAILABLE, expense_accounts, scores, parser_vars, later_vars>>

\* mapper.get_mapping_summary(ds)
CallSummary ==
    /\ pc # "raised" /\ calls < MaxCalls
    /\ \E ds \in {<<>>} \cup Texts(CallPool, MaxBatch) :
       \E r \in {get_mapping_summary(ds, FUZZY_AVAILABLE,
                                     mapper.expense_accounts, scores)} :
           /\ descriptions' = ds
           /\ summary' = r.summary
           /\ raised' = r.raised
           /\ mapper' = Classified(mapper, ds, r.summary)
           /\ pc' = IF r.raised = "none" THEN "summed" ELSE "raised"
    /\ calls' = calls + 1
    /\ Forgotten({"descriptions", "summary"})
    /\ UNCHANGED <<FUZZY_AVAILABLE, expense_accounts, scores, parser_vars, later_vars>>

SpecCalls == InitCalls /\ [][CallMap \/ CallConfidence \/ CallBatch \/ CallSummary]_vars


-----------------------------------------------------------------------------
(* CurrencyHandler.clean_dataframe, for a January statement *)

MaxRows == 2

\* the frame of test_date_parsing_logic and the frame of the pipeline
Layouts == {<<"Post Date", "Amount">>,
            <<"transaction_date", "post_date", "amount", "foreign_amount">>}

\* the rows of test_date_parsing_logic, and one of the middle of the year
TestRows ==
    {<<StrCell("December 31"), NumCell(100, 0)>>,
     <<StrCell("January 01"), NumCell(200, 0)>>,
     <<StrCell("May 01"), NumCell(5, 0)>>}

\* year-less dates either side of the new year, a date with its year and a
\* foreign amount, and a date that is none
PipelineRows ==
    {<<StrCell("December 31"), StrCell("December 31"), NumCell(100, 0), Missing>>,
     <<StrCell("January 01"), StrCell("January 01"), NumCell(200, 0), Missing>>,
     <<StrCell("Jan 2 2025"), StrCell("Jan 3 2025"), NumCell(29, 0), NumCell(50, 2)>>,
     <<StrCell("Foo 1"), StrCell(""), NumCell(5, 0), NumCell(0, 0)>>}

RowsOf(columns) == IF Len(columns) = 2 THEN TestRows ELSE PipelineRows

Frames ==
    { DataFrame(columns, [r \in 1..Len(cells) |-> [src |-> r, cells |-> cells[r]]]) :
        columns \in Layouts, cells \in UNION { Texts(RowsOf(c), MaxRows) : c \in Layouts } }

InitClean ==
    /\ pc = "frame"
    /\ df \in { f \in Frames : \A r \in 1..Len(f.rows) :
                                   Len(f.rows[r].cells) = Len(f.columns) }
    /\ statement_year \in {None, Some(2025)}
    /\ statement_month = Some(1)
    /\ now = 2026
    /\ df_clean = <<>>
    /\ line = "" /\ norm1 = "" /\ norm2 = "" /\ text = <<>>
    /\ sections = <<>> /\ scanned = <<>> /\ result = <<>> /\ raised = "none"
    /\ T = <<>> /\ dedup1 = <<>> /\ dedup2 = <<>>
    /\ MapperIdle /\ InstanceIdle /\ ConfigIdle /\ WebIdle /\ LoopIdle

\* handler.clean_dataframe(df, statement_year)
CleanDataframe ==
    /\ pc = "frame"
    /\ df_clean' \in clean_dataframe(df, statement_year, now)
    /\ pc' = "cleaned"
    /\ UNCHANGED <<df, now, raised, parser_vars, mapper_vars, instance_vars, beside_handler>>

SpecClean == InitClean /\ [][CleanDataframe]_vars

-----------------------------------------------------------------------------
(* ConfigLoaders of one process, and their load() calls *)

MaxLoads == 3

\* what a directory holds: config.py (absent, a module with the names it
\* assigns, or a file that does not compile) and transaction_rules.json
Dir(config_py, rules) == [exists |-> TRUE, config_py |-> config_py, rules |-> rules]

NoDir == [exists |-> FALSE, config_py |-> [kind |-> "absent", names |-> EmptyDict],
          rules |-> "absent"]

Module(names) == [kind |-> "module", names |-> names]

\* the config.py of test_create_valid_config_file
ValidConfig ==
    Module([PDF_INPUT_FOLDER |-> Some("/test/input"), OUTPUT_FOLDER |-> Some("/test/output"),
            ACCOUNTS_CSV_PATH |-> None, DEFAULT_CUTOFF_DATE |-> Some("2024-01-01"),
            PRIMARY_CURRENCY |-> Some("PHP"), MAX_BATCH_SIZE |-> Some(50)])

\* the config.py of test_validate_date_format
InvalidDate == Module([DEFAULT_CUTOFF_DATE |-> Some("invalid-date-format")])

\* a day no month has
NoSuchDay == Module([DEFAULT_CUTOFF_DATE |-> Some("2024-02-30")])

DirPool ==
    {Dir(NoDir.config_py, "absent"), Dir(ValidConfig, "absent"), Dir(InvalidDate, "absent"),
     Dir([kind |-> "broken", names |-> EmptyDict], "absent"),
     Dir(ValidConfig, "broken"), Dir(NoSuchDay, "valid")}

ConfigDirs == {"/nonexistent/path", "/tmp/a/config", "/tmp/b/config"}

InitLoads ==
    /\ pc = "constructed"
    /\ disk \in { f \in [ConfigDirs -> DirPool \cup {NoDir}] :
                     \A d \in ConfigDirs : (f[d] = NoDir) <=> (d = "/nonexistent/path") }
    /\ environ \in {EmptyDict, [v \in {"BPI_OUTPUT_FOLDER"} |-> "/mnt/out"]}
    /\ creatable \in {{"./data/output", "/test/output", "/mnt/out"}, {"./data/output", "/mnt/out"}}
    /\ sys_modules = None
    /\ loader \in { ConfigLoader(d) : d \in ConfigDirs }
    /\ returned = None
    /\ loads = 0
    /\ raised = "none"
    /\ ParserIdle /\ MapperIdle /\ InstanceIdle /\ HandlerIdle /\ WebIdle /\ LoopIdle

\* loader = ConfigLoader(config_dir=d)
Construct ==
    /\ \E d \in ConfigDirs : loader' = ConfigLoader(d)
    /\ pc' = "constructed"
    /\ returned' = None
    /\ UNCHANGED <<disk, environ, creatable, sys_modules, loads, raised,
                   parser_vars, mapper_vars, instance_vars, beside_config>>

\* loader.load()
Load ==
    /\ loads < MaxLoads
    /\ loader' = load(loader, environ, sys_modules, disk[loader.config_dir], creatable)
    /\ returned' = Some(IF disk[loader.config_dir].exists THEN loader'.is_loaded ELSE TRUE)
    /\ sys_modules' = ModulesAfter(sys_modules, disk[loader.config_dir])
    /\ loads' = loads + 1
    /\ pc' = "loaded"
    /\ UNCHANGED <<disk, environ, creatable, raised,
                   parser_vars, mapper_vars, instance_vars, beside_config>>

SpecLoads == InitLoads /\ [][Construct \/ Load]_vars

-----------------------------------------------------------------------------
(* The web application: requests to its routes, uploads handled in threads *)

MaxClock == 1

MaxUploads == 2

\* the 'files' parts of an upload: none; one without a name; a statement of
\* one transaction; a PDF without one with a file that is no PDF by its
\* name; a PDF by name only with a PDF that cannot be read
UploadPool ==
    {None,
     Some(<<[filename |-> "", header |-> "", readable |-> FALSE, text |-> <<>>]>>),
     Some(<<[filename |-> "my may.pdf", header |-> "%PDF", readable |-> TRUE,
             text |-> <<"Statement Date June13,2025", "May 1 May 2 Ab 5.00">>]>>),
     Some(<<[filename |-> "empty.pdf", header |-> "%PDF", readable |-> TRUE,
             text |-> <<"hello">>],
            [filename |-> "notes.txt", header |-> "text", readable |-> FALSE, text |-> <<>>]>>),
     Some(<<[filename |-> "fake.pdf", header |-> "text", readable |-> FALSE, text |-> <<>>],
            [filename |-> "scan.PDF", header |-> "%PDF", readable |-> FALSE, text |-> <<>>]>>)}

\* process_single_pdf for every file of the uploads, under the name it is
\* saved with
Processing ==
    [file \in UNION { { u[1][k] : k \in 1..Len(u[1]) } : u \in UploadPool \ {None} } |->
        process_single_pdf(file, secure_filename(file.filename))]

\* the process ids of the requests: of the route's shape, not of it, and
\* one of underscores only
ProcessIds == {Strftime(0), "invalid-id", "_"}

Filenames == {"my_may.pdf"}

Request(handler, process_id, filename) ==
    [handler |-> handler, process_id |-> process_id, filename |-> filename]

InitWeb ==
    /\ pc = "serving"
    /\ clock = 0
    /\ folders = EmptyDict
    /\ review_sessions = EmptyDict
    /\ inflight = {}
    /\ issued = <<>>
    /\ request = None /\ response = None
    /\ raised = "none"
    /\ ParserIdle /\ MapperIdle /\ InstanceIdle /\ HandlerIdle /\ ConfigIdle /\ LoopIdle

Answered(req, resp) == request' = Some(req) /\ response' = Some(resp)

\* a second passes
Tick ==
    /\ clock < MaxClock
    /\ clock' = clock + 1
    /\ UNCHANGED <<pc, folders, review_sessions, inflight, issued, request, response,
                   raised, parser_vars, mapper_vars, instance_vars, beside_web>>

\* POST /api/upload, up to os.makedirs(process_folder, exist_ok=True)
UploadBegin ==
    /\ Len(issued) < MaxUploads
    /\ \E request_files \in UploadPool :
          IF Refused(request_files).status # 0
          THEN /\ Answered(Request("upload_and_process", "", ""), Refused(request_files))
               /\ UNCHANGED <<folders, inflight, issued>>
          ELSE /\ folders' = [p \in DOMAIN folders \cup {Strftime(clock)} |->
                                 FilesOf(folders, p)]
               /\ inflight' = inflight \cup
                      {[upload |-> Len(issued) + 1, process_id |-> Strftime(clock),
                        files |-> request_files[1]]}
               /\ issued' = Append(issued, Strftime(clock))
               /\ UNCHANGED <<request, response>>
    /\ UNCHANGED <<pc, clock, review_sessions,
                   raised, parser_vars, mapper_vars, instance_vars, beside_web>>

\* POST /api/upload, from the loop over the files to the response
UploadFinish ==
    /\ \E u \in inflight :
       \E out \in {upload_and_process(folders, review_sessions, u.process_id, u.files,
                                      AccountMapperMethods, Processing)} :
          /\ folders' = [p \in DOMAIN folders |->
                            IF p = u.process_id THEN folders[p] \cup out.files ELSE folders[p]]
          /\ review_sessions' = out.review_sessions
          /\ inflight' = inflight \ {u}
          /\ Answered(Request("upload_and_process", u.process_id, ""), out.response)
    /\ UNCHANGED <<pc, clock, issued,
                   raised, parser_vars, mapper_vars, instance_vars, beside_web>>

\* GET /api/review/<process_id>
GetReviewData ==
    /\ \E process_id \in ProcessIds :
          Answered(Request("get_review_data", process_id, ""),
                   get_review_data(review_sessions, process_id))
    /\ UNCHANGED <<pc, clock, folders, review_sessions, inflight, issued,
                   raised, parser_vars, mapper_vars, instance_vars, beside_web>>

\* GET /api/download/<process_id>/<filename>
DownloadFile ==
    /\ \E process_id \in ProcessIds, filename \in Filenames :
          Answered(Request("download_file", process_id, filename),
                   download_file(folders, process_id, filename))
    /\ UNCHANGED <<pc, clock, folders, review_sessions, inflight, issued,
                   raised, parser_vars, mapper_vars, instance_vars, beside_web>>

\* GET /api/download-all/<process_id>
DownloadAll ==
    /\ \E process_id \in ProcessIds :
          Answered(Request("download_all", process_id, ""),
                   download_all(folders, process_id))
    /\ UNCHANGED <<pc, clock, folders, review_sessions, inflight, issued,
                   raised, parser_vars, mapper_vars, instance_vars, beside_web>>

\* DELETE /api/cleanup/<process_id>
CleanupProcess ==
    /\ \E process_id \in ProcessIds :
          /\ Answered(Request("cleanup_process", process_id, ""),
                      cleanup_process(folders, process_id))
          /\ folders' = CleanedUp(folders, process_id)
    /\ UNCHANGED <<pc, clock, review_sessions, inflight, issued,
                   raised, parser_vars, mapper_vars, instance_vars, beside_web>>

NextWeb ==
    Tick \/ UploadBegin \/ UploadFinish \/ GetReviewData \/ DownloadFile \/ DownloadAll
    \/ CleanupProcess

SpecWeb == InitWeb /\ [][NextWeb]_vars

-----------------------------------------------------------------------------
(* The line scanner, pass by pass *)

MaxScanLines == 2

\* the lines of a section: a blank one, one that matches a skip pattern, a
\* single-line transaction, the first line of a foreign transaction, its
\* currency line, and a currency line whose amount float() rejects
StepPool ==
    {" ", "Ending Balance", "May 1 May 2 Ab 5.00", "May 3 May 4 Ef US",
     "U.S.Dollar 1.50 80.00", "U.S.Dollar 1.2.3 80.00"}

\* lines that match a skip pattern: one with the shape of a transaction,
\* one in another case with the shape of the first line of a foreign
\* transaction, one that is the pattern alone; a currency line, a
\* transaction and the first line of a foreign transaction
SkipPool ==
    {"May 1 May 2 Past Due 5.00", "May 3 May 4 past due US", "Ending Balance",
     "U.S.Dollar 1.50 80.00", "May 1 May 2 Ab 5.00", "May 3 May 4 Ef US"}

\* the card_name argument
ScanCard == "UNKNOWN_CARD"

\* _parse_card_section(section_text, card_name, statement_year) has split
\* the text; transactions = [], i = 0
ScanOf(pool) ==
    /\ pc = "scan"
    /\ scan_lines \in Texts(pool, MaxScanLines)
    /\ scan_i = 0 /\ scan_transactions = <<>> /\ scan_starts = <<>> /\ scan_used = <<>>
    /\ statement_year \in { Some(y) : y \in Years }
    /\ statement_month = Some(6)
    /\ line = "" /\ norm1 = "" /\ norm2 = "" /\ text = <<>>
    /\ sections = <<>> /\ scanned = <<>> /\ result = <<>> /\ raised = "none"
    /\ T = <<>> /\ dedup1 = <<>> /\ dedup2 = <<>>
    /\ MapperIdle /\ InstanceIdle /\ HandlerIdle /\ ConfigIdle /\ WebIdle /\ BatchIdle

\* one pass of the loop body that takes one of the given branches
StepTaken(branches) ==
    /\ pc = "scan"
    /\ scan_i < Len(scan_lines)
    /\ \E b \in {LoopBody(scan_lines, scan_i, ScanCard, statement_year)} :
          /\ b.branch \in branches
          /\ scan_i' = b.i
          /\ scan_starts' = Append(scan_starts, scan_i)
          /\ scan_transactions' = IF b.tx = None THEN scan_transactions
                                  ELSE Append(scan_transactions, b.tx[1])
          /\ scan_used' = IF b.tx = None THEN scan_used ELSE Append(scan_used, b.used)
          /\ pc' = IF b.branch = "raise" THEN "raised" ELSE "scan"
          /\ raised' = IF b.branch = "raise" THEN "ValueError" ELSE raised
    /\ UNCHANGED <<scan_lines, parser_vars, mapper_vars, instance_vars, beside_scan>>

\* `if not line or self._should_skip(line): i += 1; continue`
StepSkip == StepTaken({"skip"})

\* `transaction = self._parse_single_line(...)`, `if transaction:`
StepSingle == StepTaken({"single"})

\* `transaction = self._parse_two_lines(...)`, `if transaction:`
StepTwo == StepTaken({"two"})

\* the `i += 1` at the bottom of the loop
StepMiss == StepTaken({"miss"})

\* float() raises in _parse_single_line or _parse_two_lines
StepRaise == StepTaken({"raise"})

\* `while i < len(lines)` fails: return transactions
StepReturn ==
    /\ pc = "scan"
    /\ scan_i >= Len(scan_lines)
    /\ pc' = "returned"
    /\ UNCHANGED <<raised, scan_vars, parser_vars, mapper_vars, instance_vars, beside_scan>>

NextSteps == StepSkip \/ StepSingle \/ StepTwo \/ StepMiss \/ StepRaise \/ StepReturn

\* the interpreter takes the next pass of the loop, or leaves the loop: the
\* steps of NextSteps, told by pc and the passes begun alone
Proceed ==
    /\ pc = "scan"
    /\ \/ pc' = "returned" /\ scan_starts' = scan_starts
       \/ pc' \in {"scan", "raised"} /\ scan_starts' = Append(scan_starts, scan_i)

InitSteps == ScanOf(StepPool)

\* the interpreter runs the loop on: while the scan is under way, its next
\* step is taken
SpecSteps == InitSteps /\ [][NextSteps]_vars /\ WF_<<pc, scan_starts>>(Proceed)

InitSkips == ScanOf(SkipPool)

SpecSkips == InitSkips /\ [][NextSteps]_vars /\ WF_<<pc, scan_starts>>(Proceed)

-----------------------------------------------------------------------------
(* Batches *)

MaxBatchFiles == 3

\* {'filename': ..., 'statement_date': ..., 'full_path': ...} of the
\* statement of a date
FileInfo(ymd, iso) ==
    [filename |-> "Statement BPI Master " \o iso \o ".pdf",
     statement_date |-> ymd,
     full_path |-> "pdfs/Statement BPI Master " \o iso \o ".pdf"]

\* the statements of the folder: of one transaction, of two (one of them
\* foreign) on two pages, of a blank page, one that cannot be read, one
\* whose currency line float() rejects
FileInfos ==
    {FileInfo(<<2025, 5, 13>>, "2025-05-13"), FileInfo(<<2025, 6, 13>>, "2025-06-13"),
     FileInfo(<<2025, 7, 13>>, "2025-07-13"), FileInfo(<<2025, 8, 13>>, "2025-08-13"),
     FileInfo(<<2025, 9, 13>>, "2025-09-13")}

PdfFolder ==
    FileInfo(<<2025, 5, 13>>, "2025-05-13").full_path :>
        [readable |-> TRUE, pages |-> << <<"May 1 May 2 Ab 5.00">> >>]
    @@ FileInfo(<<2025, 6, 13>>, "2025-06-13").full_path :>
        [readable |-> TRUE, pages |-> << <<"May 3 May 4 Ef US", "U.S.Dollar 1.50 80.00">>,
                                         <<"May 5 May 6 Cd 7.00">> >>]
    @@ FileInfo(<<2025, 7, 13>>, "2025-07-13").full_path :>
        [readable |-> TRUE, pages |-> << <<" ">> >>]
    @@ FileInfo(<<2025, 8, 13>>, "2025-08-13").full_path :>
        [readable |-> FALSE, pages |-> <<>>]
    @@ FileInfo(<<2025, 9, 13>>, "2025-09-13").full_path :>
        [readable |-> TRUE, pages |-> << <<"May 3 May 4 Ef US", "U.S.Dollar 1.2.3 80.00">> >>]

\* the calls of the try block for every statement of the folder
Trying == [file_info \in FileInfos |-> TryFile(PdfFolder, file_info)]

\* a freshly constructed processor, and the pdf_files of the call
InitBatch ==
    /\ pc = "batch"
    /\ pdf_files \in {<<>>} \cup Texts(FileInfos, MaxBatchFiles)
    /\ batch_i = 0
    /\ processed_files = BatchStatementProcessor.processed_files
    /\ failed_files = BatchStatementProcessor.failed_files
    /\ all_transactions = BatchStatementProcessor.all_transactions
    /\ ParserIdle /\ MapperIdle /\ InstanceIdle /\ HandlerIdle /\ ConfigIdle /\ WebIdle
    /\ ScanIdle

\* `if not pdf_files: return pd.DataFrame()`
BatchNone ==
    /\ pc = "batch"
    /\ pdf_files = <<>>
    /\ pc' = "returned"
    /\ UNCHANGED <<raised, batch_vars, parser_vars, mapper_vars, instance_vars, beside_batch>>

\* the way a pass of the loop goes for what the try block gave
Outcomes(tried) ==
    IF tried.raised THEN "except" ELSE IF tried.transactions # <<>> THEN "if" ELSE "else"

\* one pass of the loop over pdf_files that goes one of the given ways
BatchPass(ways) ==
    /\ pc = "batch"
    /\ batch_i < Len(pdf_files)
    /\ \E tried \in {Trying[pdf_files[batch_i + 1]]} :
       \E self \in {ProcessFile(Tracking(processed_files, failed_files, all_transactions),
                                pdf_files[batch_i + 1], tried)} :
          /\ Outcomes(tried) \in ways
          /\ processed_files' = self.processed_files
          /\ failed_files' = self.failed_files
          /\ all_transactions' = self.all_transactions
    /\ batch_i' = batch_i + 1
    /\ UNCHANGED <<pc, raised, pdf_files, parser_vars, mapper_vars, instance_vars,
                   beside_batch>>

\* `if transactions:`: the file is processed
BatchSuccess == BatchPass({"if"})

\* `else:`: No transactions found
BatchNoTransactions == BatchPass({"else"})

\* `except Exception as e:`
BatchExcept == BatchPass({"except"})

\* the loop is over: the frame returned is made of all_transactions, which
\* stays as it is
BatchReturn ==
    /\ pc = "batch"
    /\ pdf_files # <<>>
    /\ batch_i >= Len(pdf_files)
    /\ pc' = "returned"
    /\ UNCHANGED <<raised, batch_vars, parser_vars, mapper_vars, instance_vars, beside_batch>>

NextBatch == BatchNone \/ BatchSuccess \/ BatchNoTransactions \/ BatchExcept \/ BatchReturn

SpecBatch == InitBatch /\ [][NextBatch]_vars
-----------------------------------------------------------------------------
(* Claims *)

\* C1: normalize_line is idempotent: normalizing a normalized line changes
\* nothing.
C1_NormalizeIdempotent == pc = "renormalized" => norm2 = norm1

\* the month and the year of a date "<month> <day> <year>" of a record
MonthOf(date) == SubSeq(date, 1, Min({ i \in 1..Len(date) : Char(date, i) = " " }) - 1)

YearOf(date) == SubSeq(date, Max({ i \in 1..Len(date) : Char(date, i) = " " }) + 1, Len(date))

\* the year a date of a statement of January of year Y is to carry
RolledYear(date, Y) == IF MonthNum(MonthOf(date)) = 12 THEN Y - 1 ELSE Y

\* C2: in the result for a statement of January of year Y, a date of December
\* carries year Y-1, in transaction_date and in post_date alike, and every
\* other date carries year Y.
C2_YearResolution ==
    pc = "returned" /\ statement_month = Some(1) =>
        \A k \in 1..Len(result) :
            /\ YearOf(result[k].transaction_date)
                   = ToString(RolledYear(result[k].transaction_date, statement_year[1]))
            /\ YearOf(result[k].post_date)
                   = ToString(RolledYear(result[k].post_date, statement_year[1]))

\* C3: parse_transactions never raises: a currency line whose amount is no
\* number makes its candidate a non-match, and the call returns.
C3_NeverRaises == pc # "parse" => raised = "none"

\* the country code that ends a first line of a two-line transaction
CountryCode(l) == GroupOf(ReMatch(pattern1, normalize_line(Strip(l))), normalize_line(Strip(l)), 6)

KnownCodes == {"US", "SG", "NZ"}

KnownCurrencies == {"USD", "SGD", "NZD"}

\* C4: a two-line transaction whose country code is not in the table is not
\* returned as a record tagged with one of the currencies of the table.
C4_UnknownCodeNotGuessed ==
    pc = "returned" =>
        \A k \in 1..Len(result) :
            result[k].foreign_amount # None /\ CountryCode(text[result[k].src]) \notin KnownCodes
                => result[k].currency \notin KnownCurrencies

\* the place of the header that line i lies under, 0 when there is none
HeaderOver(i) ==
    IF \E h \in 1..i : HeaderCard(text[h]) # ""
    THEN Max({ h \in 1..i : HeaderCard(text[h]) # "" })
    ELSE 0

\* line i of the text is held, as line j, by the section of the given card
Holds(card, i) ==
    \E p \in 1..Len(sections) :
        /\ sections[p].card = card
        /\ \E j \in 1..Len(sections[p].at) :
               sections[p].at[j] = i /\ sections[p].lines[j] = text[i]

\* C5: every line from a header on, up to the next header, is in the section
\* that _split_by_cards returns for the card of that header, also when the
\* header of a card occurs more than once.
C5_NoLineLost ==
    pc # "parse" =>
        \A i \in 1..Len(text) :
            HeaderOver(i) # 0 => Holds(HeaderCard(text[HeaderOver(i)]), i)

\* norm_line, a line normalized and upper-cased, carries a gold-rewards
\* identifier once freed of its spaces
HasGoldId(norm_line) ==
    \E p \in GoldPatterns : Contains(RemoveChar(norm_line, " "), p)

\* norm_line carries an e-credit identifier, spaces and hyphens apart
HasECreditId(norm_line) ==
    \E p \in ECreditPatterns : Contains(RemoveChar(RemoveChar(norm_line, " "), "-"), p)

\* line i lies under a header that carries a gold-rewards identifier
UnderGold(i) ==
    HeaderOver(i) # 0 /\ HasGoldId(Upper(normalize_line(text[HeaderOver(i)])))

\* C6: a record of the result that stems from a line between a gold-rewards
\* header and the next header has card 'BPI GOLD REWARDS CARD', whatever the
\* white space of the header.
C6_SectionAttribution ==
    pc = "returned" =>
        \A k \in 1..Len(result) :
            UnderGold(result[k].src) => result[k].card = "BPI GOLD REWARDS CARD"

\* a record under the header "Gold  Rewards" carries the gold card while the
\* statement has a section of the other card too
C6_Witness ==
    /\ pc = "returned"
    /\ \E p \in 1..Len(sections) : sections[p].card = "BPI ECREDIT CARD"
    /\ \E k \in 1..Len(result) :
           /\ UnderGold(result[k].src)
           /\ text[HeaderOver(result[k].src)] = "Gold  Rewards"
           /\ result[k].card = "BPI GOLD REWARDS CARD"

\* line i carries the identifiers of both cards
BothIn(norm_line) == HasGoldId(norm_line) /\ HasECreditId(norm_line)

NamesBoth(i) == BothIn(Upper(normalize_line(text[i])))

\* no section holds line i but a gold-rewards section that starts with it
StartsGoldOnly(i) ==
    \A p \in 1..Len(sections) : \A j \in 1..Len(sections[p].at) :
        sections[p].at[j] = i => j = 1 /\ sections[p].card = "BPI GOLD REWARDS CARD"

\* no gold-rewards header follows line i
LastGold(i) ==
    \A h \in (i + 1)..Len(text) : HeaderCard(text[h]) # "BPI GOLD REWARDS CARD"

\* C7: a line that carries both a gold-rewards and an e-credit identifier is
\* taken as a gold-rewards header: it starts a 'BPI GOLD REWARDS CARD'
\* section and is in no e-credit section.
C7_GoldWinsTie ==
    pc # "parse" =>
        \A i \in 1..Len(text) :
            NamesBoth(i) =>
                /\ StartsGoldOnly(i)
                /\ LastGold(i) => Holds("BPI GOLD REWARDS CARD", i)

\* a line naming both cards follows an e-credit header and starts the gold
\* section that holds the transaction after it
C7_Witness ==
    /\ pc = "returned"
    /\ \E i \in 2..Len(text) :
           /\ NamesBoth(i)
           /\ HeaderCard(text[i - 1]) = "BPI ECREDIT CARD"
           /\ Holds("BPI GOLD REWARDS CARD", i)
           /\ \E k \in 1..Len(result) :
                  result[k].src = i + 1 /\ result[k].card = "BPI GOLD REWARDS CARD"

NoHeader == \A i \in 1..Len(text) : HeaderCard(text[i]) = ""

\* line i reads as a single-line transaction
IsTransactionLine(i) == _parse_single_line(normalize_line(Strip(text[i])), "", None).ok

\* the section of the whole text of n lines
WholeText(n) == Section("UNKNOWN_CARD", text, [i \in 1..n |-> i])

\* C8: without a recognized header, _split_by_cards returns the one section
\* 'UNKNOWN_CARD' that holds the entire text, and its transaction lines are
\* read; with a recognized header there is no 'UNKNOWN_CARD' section.
C8_NoHeaderFallback ==
    pc # "parse" =>
        IF NoHeader
        THEN /\ sections = <<WholeText(Len(text))>>
             /\ \A i \in 1..Len(text) :
                    IsTransactionLine(i) =>
                        \E k \in 1..Len(scanned) :
                            scanned[k].src = i /\ scanned[k].card = "UNKNOWN_CARD"
        ELSE \A p \in 1..Len(sections) : sections[p].card # "UNKNOWN_CARD"

\* a text of several lines, none a header, gave a record of UNKNOWN_CARD
C8_Witness ==
    /\ pc = "returned"
    /\ NoHeader
    /\ Len(text) >= 2
    /\ Len(result) >= 1
    /\ result[1].card = "UNKNOWN_CARD"

\* C9: _remove_duplicates is idempotent, and the list it returns is no longer
\* than the list it is given.
C9_DedupIdempotent ==
    /\ pc = "rededuped" => dedup2 = dedup1
    /\ pc # "dedup" => Len(dedup1) <= Len(T)

\* duplicates were removed from a list that keeps two records
C9_Witness ==
    /\ pc = "rededuped"
    /\ Len(dedup1) = 2
    /\ Len(T) > 2

\* the places, in scan order, of the records that are the first of their key
FirstMet == { i \in 1..Len(scanned) :
                \A j \in 1..(i - 1) : Key(scanned[j]) # Key(scanned[i]) }

\* the n-th of them
NthFirstMet(n) == CHOOSE i \in FirstMet : Cardinality({ j \in FirstMet : j <= i }) = n

\* the place of the section of a record in the sections returned
SectionPlace(transaction) ==
    CHOOSE p \in 1..Len(sections) : sections[p].card = transaction.card

\* scanned is in scan order: section after section, line after line
InScanOrder ==
    \A a, b \in 1..Len(scanned) :
        a < b => \/ SectionPlace(scanned[a]) < SectionPlace(scanned[b])
                 \/ /\ SectionPlace(scanned[a]) = SectionPlace(scanned[b])
                    /\ scanned[a].src < scanned[b].src

\* C10: the result holds no two records of one identity key; the record kept
\* for a key is the first one met in scan order (section order, then line
\* order), and the records kept are in scan order.
C10_ResultUnique ==
    pc = "returned" =>
        /\ \A a, b \in 1..Len(result) : a # b => Key(result[a]) # Key(result[b])
        /\ InScanOrder
        /\ Len(result) = Cardinality(FirstMet)
        /\ \A n \in 1..Len(result) : result[n] = scanned[NthFirstMet(n)]

\* one transaction under two cards: the record of the first section is kept
C10_Witness ==
    /\ pc = "returned"
    /\ Len(sections) = 2
    /\ Len(scanned) = 2
    /\ Len(result) = 1
    /\ result[1].card = sections[1].card
    /\ scanned[2].card = sections[2].card

\* line i of the text as the scanner reads it: stripped, then normalized
NormLine(i) == normalize_line(Strip(text[i]))

\* a decimal with two places, its integer part with thousands separators or
\* without, and a minus sign or none before it
AmountForm ==
    <<Rep(OneOf({"-"}), 0, 1),
      Alt(<< <<Rep(OneOf(Digits), 1, 3),
               Star(Group(Lit(",") \o <<Rep(OneOf(Digits), 3, 3)>>))>>,
             <<Plus(OneOf(Digits))>> >>)>>
    \o Lit(".") \o <<Rep(OneOf(Digits), 2, 2)>>

\* <Month> <Day> <Month> <Day> <Description> <Amount>
SingleLineForm ==
    DatesPattern \o <<Capture(5, <<Lazy(Plus(AnyChar))>>), Plus(OneOf(Spaces)),
                      Capture(6, AmountForm), Eol>>

\* the records that the scan read at line i
Emitted(i) == { k \in 1..Len(scanned) : scanned[k].src = i }

\* the year that a date of the given month is to carry in a statement of
\* year Y
ResolvedYear(month_name, Y) ==
    IF MonthNum(month_name) = 12 /\ statement_month = Some(1) THEN Y - 1 ELSE Y

\* the date of a month/day pair of a statement of year Y
ResolvedDate(month_name, day, Y) ==
    month_name \o " " \o day \o " " \o ToString(ResolvedYear(month_name, Y))

\* transaction is the record of the line l that m matches, in year Y
IsSingleLineRecord(transaction, m, l, Y) ==
    /\ transaction.transaction_date = ResolvedDate(GroupOf(m, l, 1), GroupOf(m, l, 2), Y)
    /\ transaction.post_date = ResolvedDate(GroupOf(m, l, 3), GroupOf(m, l, 4), Y)
    /\ transaction.description = Strip(GroupOf(m, l, 5))
    /\ \A token \in {RemoveChar(GroupOf(m, l, 6), ",")} :
           transaction.amount = float(token).v
    /\ transaction.currency = "PHP"
    /\ transaction.foreign_amount = None

\* C11: a line of the form <Month> <Day> <Month> <Day> <Description> <Amount>
\* gives exactly one record: its dates are the two month/day pairs with the
\* resolved year, its description the trimmed text before the amount, its
\* amount the signed value of the amount token, its currency PHP and its
\* foreign_amount None.
C11_SingleLineRecognized ==
    pc = "returned" /\ statement_year # None =>
        \A i \in 1..Len(text) : \A l \in {NormLine(i)} :
            \A m \in {ReMatch(SingleLineForm, l)} :
                m.ok =>
                    /\ Cardinality(Emitted(i)) = 1
                    /\ \A k \in Emitted(i) :
                           IsSingleLineRecord(scanned[k], m, l, statement_year[1])

\* <CurrencyName> <ForeignAmount> <HomeAmount>: a name of words of letters
\* and dots, a number, and an amount with two decimal places
CurrencyLineForm ==
    <<Bol, Plus(OneOf(Letters \cup {"."})),
      Star(Group(<<OneOf(Spaces), Plus(OneOf(Letters \cup {"."}))>>)),
      Plus(OneOf(Spaces)),
      Capture(1, <<Plus(OneOf(Digits)),
                   Star(Group(Lit(",") \o <<Plus(OneOf(Digits))>>)),
                   Rep(Group(Lit(".") \o <<Plus(OneOf(Digits))>>), 0, 1)>>),
      Plus(OneOf(Spaces)),
      Capture(2, SubSeq(AmountPattern, 2, Len(AmountPattern))), Eol>>

\* the currency code that the table gives for a country code
MappedCurrency(country_code) ==
    CASE country_code = "US" -> "USD"
      [] country_code = "SG" -> "SGD"
      [] country_code = "NZ" -> "NZD"

\* transaction is the record of the currency line l2 that m2 matches, after
\* a line that ends in country_code
IsTwoLineRecord(transaction, m2, l2, country_code) ==
    /\ \A home \in {RemoveChar(GroupOf(m2, l2, 2), ",")} :
           transaction.amount = float(home).v
    /\ \A foreign \in {RemoveChar(GroupOf(m2, l2, 1), ",")} :
           transaction.foreign_amount = Some(float(foreign).v)
    /\ transaction.currency = MappedCurrency(country_code)

\* line i, which m1 matches, and the currency line after it, which m2
\* matches, gave one record, and the currency line none of its own
IsTwoLineRead(i, m1, l1, m2, l2) ==
    /\ Cardinality(Emitted(i)) = 1
    /\ \A k \in Emitted(i) : IsTwoLineRecord(scanned[k], m2, l2, GroupOf(m1, l1, 6))
    /\ Emitted(i + 1) = {}

\* C12: a line <Month> <Day> <Month> <Day> <Description> <CountryCode> that
\* is not skipped, followed by a line <CurrencyName> <ForeignAmount>
\* <HomeAmount>, gives exactly one record, with the second number as amount,
\* the first as foreign_amount and the currency mapped from the country code
\* (US, SG, NZ); the currency line is consumed with it.
C12_TwoLinesRecognized ==
    pc = "returned" =>
        \A i \in 1..(Len(text) - 1) : \A l1 \in {NormLine(i)} : \A l2 \in {NormLine(i + 1)} :
            \A m1 \in {ReMatch(pattern1, l1)} : \A m2 \in {ReMatch(CurrencyLineForm, l2)} :
                /\ m1.ok /\ m2.ok
                /\ ~_should_skip(Strip(text[i]))
                /\ GroupOf(m1, l1, 6) \in KnownCodes
                => IsTwoLineRead(i, m1, l1, m2, l2)

\* the years a calendar can show
CalendarYears == 1900..2100

\* every date of every record of the result carries the year y
AllDatesIn(y) ==
    \A k \in 1..Len(result) :
        /\ YearOf(result[k].transaction_date) = ToString(y)
        /\ YearOf(result[k].post_date) = ToString(y)

\* C13: called without a statement_year, parse_transactions resolves every
\* date of every record with the current calendar year.
C13_DefaultYear ==
    pc = "returned" /\ statement_year = None => \E y \in CalendarYears : AllDatesIn(y)

\* the days of the months, February in a leap year
DaysIn == <<31, 29, 31, 30, 31, 30, 31, 31, 30, 31, 30, 31>>

\* the tokens name a day of a month
IsDate(month_name, day) ==
    /\ MonthNum(month_name) # 0
    /\ DigitsToInt(day, 0) >= 1
    /\ DigitsToInt(day, 0) <= DaysIn[MonthNum(month_name)]

\* C14: a line that has the shape of a transaction but whose month token is
\* no month name, or whose day is no day of the month, is a non-match: it
\* gives no record, and no exception is raised.
C14_DateMissDiscarded ==
    pc # "parse" =>
        /\ raised = "none"
        /\ \A i \in 1..Len(text) : \A l \in {NormLine(i)} : \A m \in {ReMatch(pattern, l)} :
               /\ m.ok
               /\ \/ ~IsDate(GroupOf(m, l, 1), GroupOf(m, l, 2))
                  \/ ~IsDate(GroupOf(m, l, 3), GroupOf(m, l, 4))
               => Emitted(i) = {}

-----------------------------------------------------------------------------
(* Properties of AccountMapper *)

\* the call was given a description that is neither missing nor empty
NonEmpty == description # None /\ description[1] # ""

\* C15: whenever the description contains a known-mapping pattern, case
\* ignored, map_description_to_account returns the account of a pattern it
\* contains and get_mapping_confidence reports that account with confidence
\* 100, whether or not a keyword rule matches the description as well.
C15_KnownMappingFirst ==
    pc = "rated" /\ NonEmpty =>
        \A hits \in {KnownIn(Lower(description[1]))} :
            hits # {} =>
                /\ account \in { known_mappings[k][2] : k \in hits }
                /\ confidence = <<account, 100>>

\* a known pattern and a keyword of another account are both in the description
C15_Witness ==
    /\ pc = "rated" /\ NonEmpty
    /\ KnownIn(Lower(description[1])) # {}
    /\ \E k \in KeywordsIn(Lower(description[1])) : keyword_rules[k][2][1] # account

\* C16: for an empty or missing description map_description_to_account
\* returns 'Manual Review' without raising, whatever the account list and
\* the scores, and get_mapping_confidence returns it with confidence 0; every
\* other description is reported with a confidence above 0.
C16_EmptyShortCircuits ==
    /\ pc \in {"mapped", "rated"} /\ ~NonEmpty => account = "Manual Review"
    /\ pc = "raised" => NonEmpty
    /\ pc = "rated" =>
           IF NonEmpty THEN confidence[2] > 0 ELSE confidence = <<"Manual Review", 0>>

\* the empty string was classified while fuzzywuzzy scored a known pattern
\* at the threshold and an account list was loaded
C16_Witness ==
    /\ pc = "rated" /\ description = Some("")
    /\ FUZZY_AVAILABLE /\ expense_accounts # <<>>
    /\ \E k \in 1..Len(known_mappings) : scores.known[k] >= fuzzy_threshold

\* C17: when two or more known-mapping patterns are in the description, case
\* ignored, the account returned is that of the pattern that comes first in
\* the table.
C17_FirstKnownPatternWins ==
    pc \in {"mapped", "rated"} /\ NonEmpty =>
        \A hits \in {KnownIn(Lower(description[1]))} :
            Cardinality(hits) >= 2 =>
                \E first \in hits :
                    /\ \A k \in hits : first <= k
                    /\ account = known_mappings[first][2]

\* two patterns of different accounts are in the description
C17_Witness ==
    /\ pc = "mapped" /\ NonEmpty
    /\ \E j, k \in KnownIn(Lower(description[1])) :
           j < k /\ known_mappings[j][2] # known_mappings[k][2]

\* the best score fuzzywuzzy gives a known pattern for the description
BestKnown == Max({ scores.known[k] : k \in 1..Len(known_mappings) })

BestListed == Max({ scores.keyword[i] : i \in 1..Len(expense_accounts) })

\* C19: when no known pattern is in the description, the fuzzy step on the
\* known patterns gives no result and a keyword is in the lower-cased
\* description, the first matching keyword of the rule table decides alone:
\* the result is a loaded account of the best score for the rule's first
\* candidate if a list is loaded and that score is 70 or more, and the
\* rule's first candidate otherwise.
C19_FirstKeywordDecides ==
    pc \in {"mapped", "rated"} /\ NonEmpty
    /\ KnownIn(Lower(description[1])) = {}
    /\ ~(FUZZY_AVAILABLE /\ BestKnown >= 80) =>
        \A hits \in {KeywordsIn(Lower(description[1]))} :
            hits # {} =>
                \E first \in hits :
                    /\ \A k \in hits : first <= k
                    /\ IF expense_accounts # <<>> /\ FUZZY_AVAILABLE /\ BestListed >= 70
                       THEN \E i \in 1..Len(expense_accounts) :
                                /\ scores.keyword[i] = BestListed
                                /\ account = expense_accounts[i]
                       ELSE account = keyword_rules[first][2][1]

\* two keywords of different accounts are in the description, a loaded
\* account is close to the first rule's candidate, and the description itself
\* is close to a loaded account
C19_Witness ==
    /\ pc = "mapped" /\ NonEmpty
    /\ KnownIn(Lower(description[1])) = {}
    /\ ~(FUZZY_AVAILABLE /\ BestKnown >= 80)
    /\ \E j, k \in KeywordsIn(Lower(description[1])) :
           j < k /\ keyword_rules[j][2][1] # keyword_rules[k][2][1]
    /\ expense_accounts # <<>> /\ FUZZY_AVAILABLE /\ BestListed >= 70
    /\ \E i \in 1..Len(expense_accounts) : scores.general[i] >= general_threshold

\* every account a table, the loaded list or the fallback can give
AccountNames ==
    { known_mappings[k][2] : k \in 1..Len(known_mappings) }
    \cup { keyword_rules[k][2][1] : k \in 1..Len(keyword_rules) }
    \cup { expense_accounts[i] : i \in 1..Len(expense_accounts) }
    \cup {"Liabilities:Credit Card:BPI Mastercard", "Expenses:Food:Dining",
          "Expenses:Electronics & Software", "Expenses:Professional Fees",
          "Manual Review"}

\* one of the known-pattern, fuzzy, keyword, account-list and heuristic
\* strategies gives a result for the description
Succeeds ==
    \/ KnownIn(Lower(description[1])) # {}
    \/ FUZZY_AVAILABLE /\ BestKnown >= 80
    \/ KeywordsIn(Lower(description[1])) # {}
    \/ /\ FUZZY_AVAILABLE
       /\ \E i \in 1..Len(expense_accounts) : scores.general[i] >= 60
    \/ \E word \in {"payment", "thank you", "credit", "restaurant", "cafe", "dining",
                    "food", "store", "shop", "market", "mall", "transport", "taxi",
                    "grab", "uber"} : Contains(Lower(description[1]), word)

\* C20: for every non-empty description, with or without a loaded account
\* list, map_description_to_account raises nothing and returns an account,
\* and it returns 'Manual Review' whenever no strategy succeeds.
C20_MapperTotal ==
    NonEmpty =>
        /\ pc # "map" => raised = "none"
        /\ pc \in {"mapped", "rated"} =>
               /\ account \in AccountNames
               /\ ~Succeeds => account = "Manual Review"

\* no strategy succeeded for a description, with fuzzywuzzy and no account list
C20_Witness ==
    /\ pc = "mapped" /\ NonEmpty /\ ~Succeeds
    /\ FUZZY_AVAILABLE /\ expense_accounts = <<>>

-----------------------------------------------------------------------------
(* Properties of one AccountMapper over its calls *)

-----------------------------------------------------------------------------
(* CurrencyHandler *)

\* the post date of a row: the cell under 'post_date', or 'Post Date'
PostDate(frame, row) ==
    row.cells[CHOOSE k \in 1..Len(frame.columns) : Title(frame.columns[k]) = "Post Date"]

\* C22: cleaned with the year Y of a January statement, a post date
\* 'December 31' becomes a date of the year Y - 1, and a post date
\* 'January 01' a date of the year Y
C22_CrossYearPostDates ==
    (pc = "cleaned" /\ statement_year # None /\ statement_month = Some(1)) =>
        \A r \in 1..Len(df_clean.rows) :
            \A before \in {PostDate(df, df.rows[df_clean.rows[r].src])} :
            \A after \in {PostDate(df_clean, df_clean.rows[r])} :
                /\ before = StrCell("December 31") =>
                       after.kind = "datetime" /\ after.a = statement_year[1] - 1
                /\ before = StrCell("January 01") =>
                       after.kind = "datetime" /\ after.a = statement_year[1]

\* what the code does with them: under 'post_date' both become dates of the
\* year Y, and under 'Post Date' both stay the strings they were
C22_SameYearPostDates ==
    (pc = "cleaned" /\ statement_year # None) =>
        \A r \in 1..Len(df_clean.rows) :
            \A before \in {PostDate(df, df.rows[df_clean.rows[r].src])} :
            \A after \in {PostDate(df_clean, df_clean.rows[r])} :
                before \in {StrCell("December 31"), StrCell("January 01")} =>
                    IF HasColumn(df, "post_date")
                    THEN after = DateCell(statement_year[1],
                                          IF before.text = "January 01" THEN 1 ELSE 12,
                                          IF before.text = "January 01" THEN 1 ELSE 31)
                    ELSE after = before

-----------------------------------------------------------------------------
(* ConfigLoader *)

\* the DEFAULT_CUTOFF_DATE the config.py of the loader's directory assigns
CutoffOnFile == DictGet(disk[loader.config_dir].config_py.names, "DEFAULT_CUTOFF_DATE", None)

\* config.py assigns a date that strptime('%Y-%m-%d') takes for none
BadCutoffOnFile ==
    /\ disk[loader.config_dir].config_py.kind = "module"
    /\ "BPI_DEFAULT_CUTOFF_DATE" \notin DOMAIN environ
    /\ Truthy(CutoffOnFile) /\ ValueErrorYmd(CutoffOnFile[1])

\* C23: load() leaves in errors what this call recorded and no error of a
\* call before (none is there twice), and returns True exactly when there
\* is none; for a directory that does not exist it installs the defaults
\* and returns True; for a DEFAULT_CUTOFF_DATE that is no YYYY-MM-DD date
\* it records an error that names DEFAULT_CUTOFF_DATE and returns False
C23_LoadOutcome ==
    pc = "loaded" =>
        /\ returned = Some(loader.errors = <<>>)
        /\ \A i, j \in 1..Len(loader.errors) :
               loader.errors[i] = loader.errors[j] => i = j
        /\ ~disk[loader.config_dir].exists =>
               /\ loader.config = Defaults(environ)
               /\ loader.config.PRIMARY_CURRENCY = Some("PHP")
               /\ loader.config.MAX_BATCH_SIZE = Some(50)
               /\ returned = Some(TRUE)
        /\ BadCutoffOnFile =>
               /\ \E i \in 1..Len(loader.errors) :
                      Contains(loader.errors[i], "DEFAULT_CUTOFF_DATE")
               /\ returned = Some(FALSE)

-----------------------------------------------------------------------------
(* The web application *)

\* process_id without its underscores is digits, and at least one
DigitsAndUnderscores(process_id) ==
    /\ \E i \in 1..Len(process_id) : Char(process_id, i) \in Digits
    /\ \A i \in 1..Len(process_id) : Char(process_id, i) \in Digits \cup {"_"}

\* the handlers that take a process id to a path under UPLOAD_FOLDER
FileHandlers == {"download_file", "download_all", "cleanup_process"}

\* the last request was to one of them, with a process id that is refused
RefusedId ==
    /\ request # None
    /\ request[1].handler \in FileHandlers
    /\ ~DigitsAndUnderscores(request[1].process_id)

\* the step answers a request: it is no tick of the clock and no upload
\* taking its process id
Answering == clock' = clock /\ issued' = issued

\* C24: download_file, download_all and cleanup_process answer 400 'Invalid
\* process ID' to a process id that is not digits once its underscores are
\* removed, and then read, archive and delete no file and leave the upload
\* folder as it is; whenever one of them touches a path, the process id of
\* the request is such digits
C24_InvalidIdRefused ==
    /\ [](RefusedId =>
             /\ response[1].status = 400
             /\ response[1].error = Some("Invalid process ID")
             /\ response[1].sent = {} /\ response[1].touched = {})
    /\ []((request # None /\ request[1].handler \in FileHandlers
           /\ response[1].touched # {}) => DigitsAndUnderscores(request[1].process_id))
    /\ [][(RefusedId' /\ Answering) => folders' = folders]_vars

C24_Witness ==
    /\ RefusedId /\ request[1].process_id = "_" /\ request[1].handler = "cleanup_process"
    /\ response[1].status = 400 /\ folders # EmptyDict

\* the last request was a cleanup_process with a process id that is accepted
CleanupAnswered ==
    /\ request # None /\ request[1].handler = "cleanup_process"
    /\ DigitsAndUnderscores(request[1].process_id)

\* the step answers a cleanup_process for pid
CleanupOf(pid) ==
    Answering /\ request' = Some(Request("cleanup_process", pid, ""))

\* C25: cleanup_process with an accepted process id removes the folder when
\* it exists and answers 200 with success true, and answers 404 with
\* success false and 'Process folder not found' when it does not; after a
\* cleanup that succeeded, the next request for the same id answers 404 when
\* it is a cleanup, and 404 'File not found' when it is a download_file
C25_CleanupLifecycle ==
    /\ [][\A pid \in ProcessIds :
            (CleanupOf(pid) /\ DigitsAndUnderscores(pid)) =>
                IF pid \in DOMAIN folders
                THEN /\ response'[1].status = 200 /\ response'[1].success = Some(TRUE)
                     /\ pid \notin DOMAIN folders'
                ELSE /\ response'[1].status = 404 /\ response'[1].success = Some(FALSE)
                     /\ response'[1].message = Some("Process folder not found")
                     /\ folders' = folders]_vars
    /\ [][(CleanupAnswered /\ response[1].status = 200 /\ Answering
           /\ request'[1].process_id = request[1].process_id) =>
              /\ request'[1].handler = "cleanup_process" => response'[1].status = 404
              /\ request'[1].handler = "download_file" =>
                     /\ response'[1].status = 404
                     /\ response'[1].error = Some("File not found")]_vars

\* C28: no two uploads are given the same process id
C28_DistinctProcessIds ==
    \A i, j \in 1..Len(issued) : i # j => issued[i] # issued[j]

\* C29: an upload that parsed a transaction is answered with 200 and
\* has_review_data true, and its review session is stored under the process
\* id of the response, so that get_review_data answers with transactions
C29_UploadReviewable ==
    (request # None /\ request[1].handler = "upload_and_process"
     /\ response[1].parsed > 0) =>
        /\ response[1].status = 200
        /\ response[1].has_review_data = Some(TRUE)
        /\ response[1].process_id = Some(request[1].process_id)
        /\ request[1].process_id \in DOMAIN review_sessions
        /\ get_review_data(review_sessions, request[1].process_id).status = 200
        /\ get_review_data(review_sessions, request[1].process_id).transactions
               \notin {None, Some(<<>>)}

\* a pass of the loop body is about to run
Scanning == pc = "scan" /\ scan_i < Len(scan_lines)

\* lines[i].strip() of the pass about to run
StartLine == Strip(scan_lines[scan_i + 1])

\* the line is blank or matches a skip pattern
PassedOver(l) == l = "" \/ _should_skip(l)

\* the line gives a single-line transaction
SingleMatch(l) == _parse_single_line(normalize_line(l), ScanCard, statement_year).ok

\* the line and the one after it give a two-line transaction
TwoMatch(l, next) ==
    _parse_two_lines(normalize_line(l), normalize_line(Strip(next)), ScanCard,
                     statement_year).ok

\* what the pass about to run meets: a line passed over, a single-line
\* transaction, a two-line transaction, or a line matching neither pattern
PassKind ==
    IF PassedOver(StartLine) THEN "skip"
    ELSE IF SingleMatch(StartLine) THEN "single"
    ELSE IF scan_i + 1 < Len(scan_lines) /\ TwoMatch(StartLine, scan_lines[scan_i + 2])
    THEN "two"
    ELSE "miss"

\* C26: every pass of the loop of _parse_card_section that completes moves
\* the index on by exactly two when it read a two-line transaction and by
\* exactly one otherwise (blank line, skipped line, single-line transaction,
\* line matching neither pattern), and a pass that read no transaction
\* appends no record; the scan ends for every section text; no index is the
\* start of two passes; no line is among the lines of two records
C26_ScannerProgress ==
    /\ [][(Scanning /\ pc' = "scan") =>
             \A kind \in {PassKind} :
                 /\ scan_i' - scan_i = IF kind = "two" THEN 2 ELSE 1
                 /\ kind \in {"skip", "miss"} => scan_transactions' = scan_transactions
                 /\ kind \in {"single", "two"} =>
                        Len(scan_transactions') = Len(scan_transactions) + 1]_vars
    /\ <>(pc \in {"returned", "raised"})
    /\ [](\A j, k \in 1..Len(scan_starts) : j # k => scan_starts[j] # scan_starts[k])
    /\ [](\A j, k \in 1..Len(scan_used) : j # k => scan_used[j] \cap scan_used[k] = {})
    /\ [](Len(scan_used) = Len(scan_transactions))

\* a scan that returned after one pass, which read a two-line transaction
C26_Witness ==
    /\ pc = "returned"
    /\ scan_lines = <<"May 3 May 4 Ef US", "U.S.Dollar 1.50 80.00">>
    /\ scan_starts = <<0>>
    /\ scan_used = <<{0, 1}>>
    /\ scan_i = 2

\* the index i (from 0) starts a record of the scan
StartsRecord(i) == \E k \in 1..Len(scan_used) : \A j \in scan_used[k] : i <= j /\ i \in scan_used[k]

\* C27: a line that matches a skip pattern (searched without regard to case)
\* starts no record, whatever its shape, and the pass that meets it appends
\* nothing and moves on by one line
C27_SkipBeforeMatch ==
    /\ [](\A i \in 0..(Len(scan_lines) - 1) :
             _should_skip(Strip(scan_lines[i + 1])) => ~StartsRecord(i))
    /\ [][(Scanning /\ _should_skip(StartLine)) =>
             (scan_i' = scan_i \/
              (scan_i' = scan_i + 1 /\ scan_transactions' = scan_transactions))]_vars

\* the scan passed over a line that matches a skip pattern in another case
\* and has the shape of the first line of a foreign transaction, its
\* currency line after it
C27_Witness ==
    /\ pc = "returned"
    /\ scan_lines = <<"May 3 May 4 past due US", "U.S.Dollar 1.50 80.00">>
    /\ scan_starts = <<0, 1>>
    /\ scan_transactions = <<>>
    /\ _parse_two_lines(normalize_line(scan_lines[1]), normalize_line(scan_lines[2]),
                        ScanCard, statement_year).ok

\* the number of places of files that hold file_info
Occurrences(files, file_info) == Cardinality({ k \in 1..Len(files) : files[k] = file_info })

\* the file_info an entry of failed_files was made from
InfoOf(entry) ==
    [filename |-> entry.filename, statement_date |-> entry.statement_date,
     full_path |-> entry.full_path]

\* the file_info entries of failed_files
FailedInfos == [k \in 1..Len(failed_files) |-> InfoOf(failed_files[k])]

\* extraction and parsing of the file raise nothing and give a transaction
Yields(file_info) ==
    ~Trying[file_info].raised /\ Trying[file_info].transactions # <<>>

\* the transactions of the given files, in their order, each with the
\* statement date of its file
RECURSIVE TransactionsOf(_)
TransactionsOf(files) ==
    IF files = <<>> THEN <<>>
    ELSE WithStatementDate(Trying[Head(files)].transactions, Head(files).statement_date)
         \o TransactionsOf(Tail(files))

\* C30: when process_batch returns on a fresh processor, it has handled
\* every file of pdf_files; each file is as often in processed_files and
\* failed_files together as it is in pdf_files, and never in both; the
\* processed files are those that gave a transaction, the failed ones those
\* that raised or gave none; the lengths add up to len(pdf_files); and
\* all_transactions is the transactions of the processed files
C30_BatchBookkeeping ==
    /\ Len(processed_files) + Len(failed_files) = batch_i
    /\ pc = "returned" =>
          /\ batch_i = Len(pdf_files)
          /\ Len(processed_files) + Len(failed_files) = Len(pdf_files)
          /\ \A file_info \in FileInfos :
                /\ Occurrences(processed_files, file_info)
                       + Occurrences(FailedInfos, file_info)
                   = Occurrences(pdf_files, file_info)
                /\ Occurrences(processed_files, file_info) = 0
                   \/ Occurrences(FailedInfos, file_info) = 0
          /\ \A k \in 1..Len(processed_files) : Yields(processed_files[k])
          /\ \A k \in 1..Len(failed_files) : ~Yields(FailedInfos[k])
          /\ all_transactions = TransactionsOf(processed_files)

\* a batch that returned after a file with transactions, a file that raised
\* and a file without transactions
C30_Witness ==
    /\ pc = "returned"
    /\ Len(pdf_files) = 3
    /\ Len(processed_files) = 1
    /\ Len(all_transactions) = 2
    /\ \E j, k \in 1..Len(failed_files) :
          /\ failed_files[j].error = "No transactions found"
          /\ Trying[InfoOf(failed_files[k])].raised
    /\ pdf_files[1] = FailedInfos[1]
====
